---------------------------- MODULE Spec2Model ----------------------------
(***************************************************************************)
(* Route-tree resolution engine of openspace (pathe / routing core):       *)
(* segment parser, pattern builder, pattern matcher with its compile       *)
(* cache, path generator, sorter, validator, collector, serializer and     *)
(* framework adapter; and the app lifecycle of the Orbit kernel.           *)
(*                                                                         *)
(* A JavaScript string is modelled as a sequence of one-character strings, *)
(* so that regular expressions, String.replace, split and join are         *)
(* computed character by character, the way the code computes them.        *)
(***************************************************************************)
EXTENDS Integers, Sequences, FiniteSets, TLC

VARIABLES
    pc,        \* position of the modelled call sequence
    raw,       \* parser: the directory name handed to parse
    segment,   \* parser: <<>> before the call, <<Segment>> after it
    chain,     \* builder: the Segment chain handed to build
    params,    \* generatePath: the params record handed to it
    options,   \* generatePath: the options record handed to it, empty when left out
    route,     \* <<>> or <<Route>> returned by build
    path,      \* <<>> or <<string>>: the concrete path handed to match
    result,    \* <<>> or <<RouteMatch | null>> returned by match
    cache,     \* matcher.ts module-level Map: pattern -> {regex, names}
    compiles,  \* history: how many times each pattern went through compile's body
    matched,   \* history: the patterns handed to match so far
    nodes,     \* the sibling array handed to sort
    tree,      \* <<>> or the RouteTree handed to arrange, validate, collect, serialize, adapt
    output,    \* <<>> or <<value returned by the last of these calls>>
    trace,     \* history: <<>> or the record of the calls the last operation made
    apps,      \* orbit: the registry, app name -> status of the registered app
    events,    \* orbit: the 'app:status-change' events emitted so far
    timers,    \* orbit: the calls suspended on setTimeout(resolve, 0), oldest first
    microtasks, \* orbit: the calls whose awaited promise has resolved, oldest first
    invoked    \* history: the lifecycle methods called so far

vars == <<pc, raw, segment, chain, params, options, route, path, result,
          cache, compiles, matched, nodes, tree, output, trace,
          apps, events, timers, microtasks, invoked>>

parserVars == <<raw, segment>>
routeVars == <<chain, params, options, route, path, result>>
cacheVars == <<cache, compiles, matched>>
sorterVars == <<nodes, tree, output, trace>>
orbitVars == <<apps, events, timers, microtasks, invoked>>

-----------------------------------------------------------------------------
(* Bounds of the model *)

\* number of pieces a generated directory name is concatenated from
MaxPieces == 3

\* number of segments of a chain handed to build
MaxChain == 3

\* number of items of an array value of a catch-all parameter
MaxItems == 2

\* number of parts an arbitrary request path is concatenated from
MaxPathParts == 3

\* number of times the model lets one pattern go through compile's body
MaxCompiles == 2

-----------------------------------------------------------------------------
(* Strings *)

\* \w: [A-Za-z0-9_]
WordChars ==
    {"a", "b", "c", "d", "e", "f", "g", "h", "i", "j", "k", "l", "m",
     "n", "o", "p", "q", "r", "s", "t", "u", "v", "w", "x", "y", "z"}
    \cup {"A", "B", "C", "D", "E", "F", "G", "H", "I", "J", "K", "L", "M",
     "N", "O", "P", "Q", "R", "S", "T", "U", "V", "W", "X", "Y", "Z"}
    \cup {"0", "1", "2", "3", "4", "5", "6", "7", "8", "9", "_"}

IsWordChar(c) == c \in WordChars

\* \w+
IsWord(s) == Len(s) >= 1 /\ \A i \in 1..Len(s) : IsWordChar(s[i])

StartsWith(s, p) == Len(s) >= Len(p) /\ SubSeq(s, 1, Len(p)) = p

EndsWith(s, p) == Len(s) >= Len(p) /\ SubSeq(s, Len(s) - Len(p) + 1, Len(s)) = p

\* s.slice(n)
Drop(s, n) == SubSeq(s, n + 1, Len(s))

\* s.slice(0, s.length - n)
DropLast(s, n) == SubSeq(s, 1, Len(s) - n)

\* does p occur in s at (1-based) position i
OccursAt(s, p, i) == i >= 1 /\ i + Len(p) - 1 <= Len(s) /\ SubSeq(s, i, i + Len(p) - 1) = p

\* s.indexOf(p), 1-based; 0 when p does not occur
IndexOf(s, p) ==
    LET hits == {i \in 1..(Len(s) + 1) : OccursAt(s, p, i)}
    IN IF hits = {} THEN 0 ELSE CHOOSE i \in hits : \A j \in hits : i <= j

\* number of non-overlapping occurrences of p in s, scanning left to right:
\* (s.match(/p/g) || []).length for a literal p
RECURSIVE CountMatches(_, _)
CountMatches(s, p) ==
    LET i == IndexOf(s, p)
    IN IF i = 0 THEN 0 ELSE 1 + CountMatches(Drop(s, i + Len(p) - 1), p)

\* parts.join(sep)
RECURSIVE Join(_, _)
Join(parts, sep) ==
    IF Len(parts) = 0 THEN <<>>
    ELSE IF Len(parts) = 1 THEN parts[1]
    ELSE parts[1] \o sep \o Join(Tail(parts), sep)

\* s.split(sep) for a one-character separator: the pieces, empty ones included
RECURSIVE Split(_, _)
Split(s, sep) ==
    LET i == IndexOf(s, sep)
    IN IF i = 0 THEN <<s>>
       ELSE <<SubSeq(s, 1, i - 1)>> \o Split(Drop(s, i), sep)

\* pieces.filter(Boolean): the empty strings dropped
FilterBoolean(pieces) == SelectSeq(pieces, LAMBDA x : x # <<>>)

\* s.replace(p, v) for a string p: the first occurrence only.  The values of the
\* model hold no '$', so v is inserted as it is.
Replace(s, p, v) ==
    LET i == IndexOf(s, p)
    IN IF i = 0 THEN s
       ELSE SubSeq(s, 1, i - 1) \o v \o Drop(s, i + Len(p) - 1)

\* s.includes(c)
Includes(s, c) == \E i \in 1..Len(s) : s[i] = c

Max(S) == CHOOSE x \in S : \A y \in S : y <= x

-----------------------------------------------------------------------------
(* Segment *)

SegmentType == {"static", "dynamic", "catchAll", "optionalCatchAll", "group",
                "parallel", "interceptSame", "interceptParent", "interceptRoot"}

InterceptTypes == {"interceptSame", "interceptParent", "interceptRoot"}

\* JavaScript's Infinity, the level of a root intercept
Infinity == 1000000

-----------------------------------------------------------------------------
(* Parser: the regular expressions.  Each returns <<>> (null) or the tuple *)
(* of its capture groups.                                                  *)

\* /^\[\[\.\.\.(\w+)\]\]$/
OPTIONAL_CATCH_ALL(s) ==
    LET name == DropLast(Drop(s, 5), 2)
    IN IF StartsWith(s, <<"[", "[", ".", ".", ".">>) /\ EndsWith(s, <<"]", "]">>)
          /\ Len(s) >= 8 /\ IsWord(name)
       THEN <<name>> ELSE <<>>

\* /^\[\.\.\.(\w+)\]$/
CATCH_ALL(s) ==
    LET name == DropLast(Drop(s, 4), 1)
    IN IF StartsWith(s, <<"[", ".", ".", ".">>) /\ EndsWith(s, <<"]">>)
          /\ Len(s) >= 6 /\ IsWord(name)
       THEN <<name>> ELSE <<>>

\* /^\[(\w+)\]$/
DYNAMIC(s) ==
    LET name == DropLast(Drop(s, 1), 1)
    IN IF StartsWith(s, <<"[">>) /\ EndsWith(s, <<"]">>) /\ Len(s) >= 3 /\ IsWord(name)
       THEN <<name>> ELSE <<>>

\* /^\((\w+)\)$/
GROUP(s) ==
    LET name == DropLast(Drop(s, 1), 1)
    IN IF StartsWith(s, <<"(">>) /\ EndsWith(s, <<")">>) /\ Len(s) >= 3 /\ IsWord(name)
       THEN <<name>> ELSE <<>>

\* /^@(\w+)$/
PARALLEL(s) ==
    IF StartsWith(s, <<"@">>) /\ IsWord(Drop(s, 1)) THEN <<Drop(s, 1)>> ELSE <<>>

\* /^\(\.\.\.\)(\w+)$/
INTERCEPT_ROOT(s) ==
    IF StartsWith(s, <<"(", ".", ".", ".", ")">>) /\ IsWord(Drop(s, 5))
    THEN <<Drop(s, 5)>> ELSE <<>>

\* /^\(\.\)(\w+)$/
INTERCEPT_SAME(s) ==
    IF StartsWith(s, <<"(", ".", ")">>) /\ IsWord(Drop(s, 3))
    THEN <<Drop(s, 3)>> ELSE <<>>

\* the text left after every leading "(.)" or "(..)" group is taken off
RECURSIVE StripGroups(_)
StripGroups(s) ==
    IF StartsWith(s, <<"(", ".", ".", ")">>) THEN StripGroups(Drop(s, 4))
    ELSE IF StartsWith(s, <<"(", ".", ")">>) THEN StripGroups(Drop(s, 3))
    ELSE s

\* /^(\(\.\.?\))+(\w+)$/ : capture 1 is the last group, capture 2 the name.
\* A word holds no parenthesis, so the groups end where StripGroups stops.
INTERCEPT_PARENT(s) ==
    LET name == StripGroups(s)
        groups == DropLast(s, Len(name))
        last == IF EndsWith(groups, <<"(", ".", ".", ")">>)
                THEN <<"(", ".", ".", ")">> ELSE <<"(", ".", ")">>
    IN IF Len(groups) >= 3 /\ IsWord(name) THEN <<last, name>> ELSE <<>>

\* (match[0].match(/\(\.\.\)/g) || []).length, match[0] being the whole name
InterceptLevel_one(s) == 1

InterceptLevel(s) == CountMatches(s, <<"(", ".", ".", ")">>)

-----------------------------------------------------------------------------
(* Parser: parse *)

\* raw[0]: undefined for the empty string
FirstChar(s) == IF Len(s) = 0 THEN "undefined" ELSE s[1]

Named(s, t, n) == [raw |-> s, type |-> t, name |-> n]

Levelled(s, t, n, l) == [raw |-> s, type |-> t, name |-> n, level |-> l]

Static(s) == [raw |-> s, type |-> "static"]

\* the '[' branch of parse: <<>> when none of its rules matches
parseBracket(s) ==
    IF OPTIONAL_CATCH_ALL(s) # <<>>
        THEN <<Named(s, "optionalCatchAll", OPTIONAL_CATCH_ALL(s)[1])>>
    ELSE IF CATCH_ALL(s) # <<>> THEN <<Named(s, "catchAll", CATCH_ALL(s)[1])>>
    ELSE IF DYNAMIC(s) # <<>> THEN <<Named(s, "dynamic", DYNAMIC(s)[1])>>
    ELSE <<>>

\* the '(' branch of parse
parseParen(s) ==
    IF INTERCEPT_ROOT(s) # <<>>
        THEN <<Levelled(s, "interceptRoot", INTERCEPT_ROOT(s)[1], Infinity)>>
    ELSE IF INTERCEPT_SAME(s) # <<>>
        THEN <<Levelled(s, "interceptSame", INTERCEPT_SAME(s)[1], 0)>>
    ELSE IF INTERCEPT_PARENT(s) # <<>>
        THEN <<Levelled(s, "interceptParent", INTERCEPT_PARENT(s)[2], InterceptLevel(s))>>
    ELSE IF GROUP(s) # <<>> THEN <<Named(s, "group", GROUP(s)[1])>>
    ELSE <<>>

\* the '@' branch of parse
parseAt(s) ==
    IF PARALLEL(s) # <<>> THEN <<Named(s, "parallel", PARALLEL(s)[1])>> ELSE <<>>

parseDispatch(s) ==
    IF FirstChar(s) = "[" THEN parseBracket(s)
    ELSE IF FirstChar(s) = "(" THEN parseParen(s)
    ELSE IF FirstChar(s) = "@" THEN parseAt(s)
    ELSE <<>>

\* a parse whose branches return their own outcome, so that a bracket, paren or
\* '@' form matching no rule never reaches the final return
parse_branchReturns(s) ==
    IF parseDispatch(s) # <<>> THEN parseDispatch(s)[1]
    ELSE IF FirstChar(s) \in {"[", "(", "@"} THEN [raw |-> s, type |-> "undefined"]
    ELSE Static(s)

parse(s) ==
    IF parseDispatch(s) # <<>> THEN parseDispatch(s)[1] ELSE Static(s)

-----------------------------------------------------------------------------
(* Inputs of the parser: every concatenation of at most MaxPieces pieces.  *)
(* The pieces are the tokens of the directory-name grammar, two word       *)
(* names and a character outside \w.                                       *)

Pieces == {
    <<"[">>, <<"]">>, <<"[", ".", ".", ".">>, <<"[", "[", ".", ".", ".">>, <<"]", "]">>,
    <<"(">>, <<")">>, <<"(", ".", ")">>, <<"(", ".", ".", ")">>, <<"(", ".", ".", ".", ")">>,
    <<"@">>, <<".">>, <<"-">>, <<"a">>, <<"b", "_", "1">> }

\* every concatenation of at most k elements of P
RECURSIVE Concats(_, _)
Concats(P, k) ==
    IF k = 0 THEN {<<>>}
    ELSE Concats(P, k - 1) \cup {s \o q : s \in Concats(P, k - 1), q \in P}

RawInputs == Concats(Pieces, MaxPieces)

-----------------------------------------------------------------------------
(* Values of the variables a specification does not use *)

NoCache == [p \in {} |-> <<>>]

IdleParser == raw = <<>> /\ segment = <<>>

IdleRoute == chain = <<>> /\ params = <<>> /\ options = <<>> /\ route = <<>> /\ path = <<>> /\ result = <<>>

IdleCache == cache = NoCache /\ compiles = NoCache /\ matched = {}

IdleSorter == nodes = <<>> /\ tree = <<>> /\ output = <<>> /\ trace = <<>>

IdleOrbit ==
    apps = <<>> /\ events = <<>> /\ timers = <<>> /\ microtasks = <<>> /\ invoked = <<>>

-----------------------------------------------------------------------------
(* SpecParser: one call of parse on an arbitrary directory name *)

InitParser ==
    /\ pc = "ready"
    /\ raw \in RawInputs
    /\ segment = <<>>
    /\ IdleRoute /\ IdleCache /\ IdleSorter /\ IdleOrbit

Parse ==
    /\ pc = "ready"
    /\ segment' = <<parse(raw)>>
    /\ pc' = "parsed"
    /\ UNCHANGED <<orbitVars, raw, routeVars, cacheVars, sorterVars>>

NextParser == Parse

SpecParser == InitParser /\ [][NextParser]_vars

\* some rule of the grammar matches the whole name
MatchesSomeRule(s) ==
    \/ OPTIONAL_CATCH_ALL(s) # <<>> \/ CATCH_ALL(s) # <<>> \/ DYNAMIC(s) # <<>>
    \/ INTERCEPT_ROOT(s) # <<>> \/ INTERCEPT_SAME(s) # <<>> \/ INTERCEPT_PARENT(s) # <<>>
    \/ GROUP(s) # <<>> \/ PARALLEL(s) # <<>>

\* C2: parser totality.  For every name, the empty one and malformed bracket
\* and paren forms included, parse returns a Segment whose raw is the input and
\* whose type is one of the nine SegmentType values; a name matching no rule
\* is classified static.
ParserTotal ==
    pc = "parsed" =>
        /\ Len(segment) = 1
        /\ segment[1].raw = raw
        /\ segment[1].type \in SegmentType
        /\ (~MatchesSomeRule(raw) => segment[1] = Static(raw))

\* a malformed bracket form has been parsed, and came out static
ParserTotalWitness ==
    /\ pc = "parsed"
    /\ raw = <<"[", ".", ".", ".", "a">>
    /\ segment[1].type = "static"

\* the word names occurring in s
WordsIn(s) ==
    {w \in {SubSeq(s, i, j) : i \in 1..Len(s), j \in 1..Len(s)} : IsWord(w)}

RECURSIVE Repeat(_, _)
Repeat(s, k) == IF k = 0 THEN <<>> ELSE s \o Repeat(s, k - 1)

-----------------------------------------------------------------------------
(* Builder *)

UrlTypes == {"static", "dynamic", "catchAll", "optionalCatchAll"}

CatchAllTypes == {"catchAll", "optionalCatchAll"}

\* `${segment.name}`: the text "undefined" when the segment has no name
NameText(seg) ==
    IF "name" \in DOMAIN seg THEN seg.name
    ELSE <<"u", "n", "d", "e", "f", "i", "n", "e", "d">>

\* what the switch of build pushes for one segment, every type having its case
PartsOf_rawDefault(seg) ==
    IF seg.type = "dynamic" THEN <<<<":">> \o NameText(seg)>>
    ELSE IF seg.type = "catchAll" THEN <<<<":">> \o NameText(seg) \o <<"+">>>>
    ELSE IF seg.type = "optionalCatchAll" THEN <<<<":">> \o NameText(seg) \o <<"*">>>>
    ELSE IF seg.type \in {"group", "parallel"} THEN <<>>
    ELSE <<seg.raw>>

\* what the switch of build pushes for one segment: no case, so nothing, for
\* the intercept types
PartsOf(seg) ==
    IF seg.type = "static" THEN <<seg.raw>>
    ELSE IF seg.type = "dynamic" THEN <<<<":">> \o NameText(seg)>>
    ELSE IF seg.type = "catchAll" THEN <<<<":">> \o NameText(seg) \o <<"+">>>>
    ELSE IF seg.type = "optionalCatchAll" THEN <<<<":">> \o NameText(seg) \o <<"*">>>>
    ELSE <<>>

\* the parts array after the loop over the segments
RECURSIVE BuildParts(_)
BuildParts(segments) ==
    IF Len(segments) = 0 THEN <<>>
    ELSE PartsOf(Head(segments)) \o BuildParts(Tail(segments))

build(segments) ==
    [segments |-> segments, pattern |-> <<"/">> \o Join(BuildParts(segments), <<"/">>)]

\* every sequence of at most k elements of S
RECURSIVE SeqsUpTo(_, _)
SeqsUpTo(S, k) ==
    IF k = 0 THEN {<<>>}
    ELSE SeqsUpTo(S, k - 1) \cup {Append(s, x) : s \in SeqsUpTo(S, k - 1), x \in S}

\* the segments of the chains handed to build: what parse makes of one name of
\* each form, the root's empty name included
BuildSegments ==
    {parse(r) : r \in {
        <<>>, <<"a">>, <<"[", "x", "]">>, <<"[", ".", ".", ".", "y", "]">>,
        <<"[", "[", ".", ".", ".", "x", "]", "]">>, <<"(", "a", ")">>, <<"@", "a">>,
        <<"(", ".", ")", "a">>, <<"(", ".", ".", ")", "a">>,
        <<"(", ".", ".", ".", ")", "a">> }}

-----------------------------------------------------------------------------
(* SpecBuild: one call of build on an arbitrary chain *)

InitBuild ==
    /\ pc = "ready"
    /\ chain \in SeqsUpTo(BuildSegments, MaxChain)
    /\ params = <<>> /\ options = <<>> /\ route = <<>> /\ path = <<>> /\ result = <<>>
    /\ IdleParser /\ IdleCache /\ IdleSorter /\ IdleOrbit

Build ==
    /\ pc = "ready"
    /\ route' = <<build(chain)>>
    /\ pc' = "built"
    /\ UNCHANGED <<orbitVars, chain, params, options, path, result, parserVars, cacheVars, sorterVars>>

NextBuild == Build

SpecBuild == InitBuild /\ [][NextBuild]_vars

\* the path token of a URL-affecting segment
TokenOf(seg) ==
    CASE seg.type = "static" -> seg.raw
      [] seg.type = "dynamic" -> <<":">> \o seg.name
      [] seg.type = "catchAll" -> <<":">> \o seg.name \o <<"+">>
      [] seg.type = "optionalCatchAll" -> <<":">> \o seg.name \o <<"*">>

UrlSegments(segments) == SelectSeq(segments, LAMBDA s : s.type \in UrlTypes)

\* C4: build returns the chain unchanged as segments, and a pattern that is
\* '/' followed by the '/'-joined tokens of the static, dynamic, catchAll and
\* optionalCatchAll segments in chain order; group, parallel and intercept
\* segments contribute no token.
BuilderPattern ==
    pc = "built" =>
        LET url == UrlSegments(chain) IN
        /\ route[1].segments = chain
        /\ route[1].pattern =
              <<"/">> \o Join([i \in 1..Len(url) |-> TokenOf(url[i])], <<"/">>)

\* a chain holding an intercept and a dynamic segment has been built
BuilderPatternWitness ==
    /\ pc = "built"
    /\ Len(chain) = 3
    /\ chain[1].type = "static" /\ chain[1].raw = <<"a">>
    /\ chain[2].type = "interceptParent"
    /\ chain[3].type = "dynamic"
    /\ route[1].pattern = <<"/", "a", "/", ":", "x">>

-----------------------------------------------------------------------------
(* Matcher: compile.  The compiled RegExp is modelled by the sequence of   *)
(* the items its source is concatenated from; escapeRegex makes a static    *)
(* part match literally.                                                    *)

Lit(text) == [kind |-> "lit", text |-> text, slash |-> FALSE, modifier |-> ""]

Capture(slash, modifier) ==
    [kind |-> "capture", text |-> <<>>, slash |-> slash, modifier |-> modifier]

\* does a match of /\/?:\w+[*+]?/ start at position i of s
TokenAt(s, i) ==
    \/ /\ i + 2 <= Len(s) /\ s[i] = "/" /\ s[i + 1] = ":" /\ IsWordChar(s[i + 2])
    \/ /\ i + 1 <= Len(s) /\ s[i] = ":" /\ IsWordChar(s[i + 1])

\* the last position of the \w+ run that starts at position i
WordEnd(s, i) ==
    Max({j \in i..Len(s) : \A k \in i..j : IsWordChar(s[k])})

\* pattern.split(/(\/?:\w+[*+]?)/g) followed by the loop over the parts: the
\* items of the expression and the parameter names, in order.  Empty static
\* parts add nothing.
RECURSIVE CompileParts(_)
CompileParts(s) ==
    LET starts == {i \in 1..Len(s) : TokenAt(s, i)} IN
    IF starts = {}
    THEN [items |-> IF s = <<>> THEN <<>> ELSE <<Lit(s)>>, names |-> <<>>]
    ELSE
        LET i == CHOOSE x \in starts : \A y \in starts : x <= y
            slash == s[i] = "/"
            first == IF slash THEN i + 2 ELSE i + 1
            last == WordEnd(s, first)
            modifier == IF last + 1 <= Len(s) /\ s[last + 1] \in {"*", "+"}
                        THEN s[last + 1] ELSE ""
            stop == IF modifier = "" THEN last ELSE last + 1
            rest == CompileParts(Drop(s, stop))
            before == IF i = 1 THEN <<>> ELSE <<Lit(SubSeq(s, 1, i - 1))>>
        IN [items |-> before \o <<Capture(slash, modifier)>> \o rest.items,
            names |-> <<SubSeq(s, first, last)>> \o rest.names]

\* lines 43-93 of compile: what a cache miss computes
CompileBody(pattern) ==
    [regex |-> CompileParts(pattern).items, names |-> CompileParts(pattern).names]

\* a compile that answers from the cache with whatever entry it holds
compile_anyEntry(pattern, c) ==
    IF DOMAIN c # {}
    THEN [value |-> c[CHOOSE q \in DOMAIN c : TRUE],
          cache |-> [q \in DOMAIN c \cup {pattern} |->
                        IF q \in DOMAIN c THEN c[q] ELSE CompileBody(pattern)],
          ran |-> pattern \notin DOMAIN c]
    ELSE [value |-> CompileBody(pattern),
          cache |-> [q \in {pattern} |-> CompileBody(pattern)],
          ran |-> TRUE]

\* a compile that never looks into the cache
compile_nolookup(pattern, c) ==
    [value |-> CompileBody(pattern),
     cache |-> [q \in DOMAIN c \cup {pattern} |->
                   IF q = pattern THEN CompileBody(pattern) ELSE c[q]],
     ran |-> TRUE]

\* compile(pattern) against the cache c: the value returned, the cache after
\* the call, and whether the body ran
compile(pattern, c) ==
    IF pattern \in DOMAIN c
    THEN [value |-> c[pattern], cache |-> c, ran |-> FALSE]
    ELSE [value |-> CompileBody(pattern),
          cache |-> [q \in DOMAIN c \cup {pattern} |->
                        IF q = pattern THEN CompileBody(pattern) ELSE c[q]],
          ran |-> TRUE]

-----------------------------------------------------------------------------
(* Matcher: path.match(regex) for the anchored expression ^...$            *)

\* capture ends when a dynamic token is compiled to (.+) like a catch-all
CaptureEnds_dynamicAny(s, from, modifier) ==
    IF modifier = "*" THEN (from - 1)..Len(s) ELSE from..Len(s)

\* the positions a capture starting at position from may end at, for each
\* modifier: [^/]+ , .+ and .*  (from - 1 stands for the empty capture)
CaptureEnds(s, from, modifier) ==
    IF modifier = "" THEN {e \in from..Len(s) : \A j \in from..e : s[j] # "/"}
    ELSE IF modifier = "+" THEN from..Len(s)
    ELSE (from - 1)..Len(s)

\* The backtracking match of items[k..] against s from position pos: <<>>
\* when it fails, else <<captures>>, a capture being <<>> (undefined) or
\* <<text>>.  A greedy quantifier keeps the longest text with which the rest
\* of the expression still matches.
RECURSIVE MatchFrom(_, _, _, _)
MatchFrom(items, k, s, pos) ==
    IF k > Len(items) THEN (IF pos = Len(s) + 1 THEN <<<<>>>> ELSE <<>>)
    ELSE
    LET it == items[k] IN
    IF it.kind = "lit"
    THEN IF OccursAt(s, it.text, pos)
         THEN MatchFrom(items, k + 1, s, pos + Len(it.text)) ELSE <<>>
    ELSE
    LET slashOk == ~it.slash \/ (pos <= Len(s) /\ s[pos] = "/")
        from == IF it.slash THEN pos + 1 ELSE pos
        good == IF slashOk
                THEN {e \in CaptureEnds(s, from, it.modifier) :
                         MatchFrom(items, k + 1, s, e + 1) # <<>>}
                ELSE {}
        \* (?:/(.*))? : the group as a whole may be skipped
        optional == it.slash /\ it.modifier = "*"
    IN IF good # {}
       THEN LET e == Max(good)
            IN <<<<<<SubSeq(s, from, e)>>>> \o MatchFrom(items, k + 1, s, e + 1)[1]>>
       ELSE IF optional /\ MatchFrom(items, k + 1, s, pos) # <<>>
       THEN <<<<<<>>>> \o MatchFrom(items, k + 1, s, pos)[1]>>
       ELSE <<>>

RegexMatch(s, regex) == MatchFrom(regex, 1, s, 1)

-----------------------------------------------------------------------------
(* Matcher: match *)

\* a params value: a string, or an array of strings
Scalar(s) == [isArray |-> FALSE, items |-> <<s>>]

Array(items) == [isArray |-> TRUE, items |-> items]

Put(map, key, value) ==
    [k \in DOMAIN map \cup {key} |-> IF k = key THEN value ELSE map[k]]

\* the value match stores for a capture that is not undefined
ParamValue(value) ==
    IF Includes(value, "/") THEN Array(FilterBoolean(Split(value, <<"/">>)))
    ELSE Scalar(value)

\* the loop over names: params after the names from i on are handled
RECURSIVE MatchParams(_, _, _, _)
MatchParams(names, caps, i, acc) ==
    IF i > Len(names) THEN acc
    ELSE MatchParams(names, caps, i + 1,
            IF caps[i] = <<>> THEN acc ELSE Put(acc, names[i], ParamValue(caps[i][1])))

NoParams == [n \in {} |-> Scalar(<<>>)]

Null == [hit |-> FALSE]

\* match(path, route) against the cache c: the value returned, the cache after
\* the call and whether compile's body ran
match(p, r, c) ==
    LET comp == compile(r.pattern, c)
        m == RegexMatch(p, comp.value.regex)
    IN [value |-> IF m = <<>> THEN Null
                  ELSE [hit |-> TRUE, route |-> r,
                        params |-> MatchParams(comp.value.names, m[1], 1, NoParams)],
        cache |-> comp.cache,
        ran |-> comp.ran]

-----------------------------------------------------------------------------
(* PathGenerator: generatePath.  params is the sequence Object.entries       *)
(* gives: [name, value] in the object's key order.                           *)

\* /:\w+[*+]?/ finds something in s
HasToken(s) == \E i \in 1..Len(s) : s[i] = ":" /\ i + 1 <= Len(s) /\ IsWordChar(s[i + 1])

StringValue(v) == IF v.isArray THEN Join(v.items, <<"/">>) ELSE v.items[1]

\* the three replacements made for one entry
Substitute(s, name, text) ==
    Replace(Replace(Replace(s,
        <<":">> \o name \o <<"*">>, text),
        <<":">> \o name \o <<"+">>, text),
        <<":">> \o name, text)

\* the loop over the entries from i on: the text, or a throw
RECURSIVE GenerateLoop(_, _, _, _)
GenerateLoop(s, entries, i, throwOnMissing) ==
    IF i > Len(entries) THEN [threw |-> FALSE, value |-> s]
    ELSE
    LET e == entries[i] IN
    IF e.value.isArray /\ Len(e.value.items) = 0
    THEN IF throwOnMissing THEN [threw |-> TRUE, value |-> s]
         ELSE GenerateLoop(s, entries, i + 1, throwOnMissing)
    ELSE GenerateLoop(Substitute(s, e.name, StringValue(e.value)),
                      entries, i + 1, throwOnMissing)

\* the options object of a call that passes none
NoOptions == [k \in {} |-> TRUE]

\* const { throwOnMissing = true } = options
ThrowOnMissing(opts) ==
    IF "throwOnMissing" \in DOMAIN opts THEN opts.throwOnMissing ELSE TRUE

generatePath(pattern, entries, opts) ==
    LET throwOnMissing == ThrowOnMissing(opts)
        r == GenerateLoop(pattern, entries, 1, throwOnMissing)
    IN IF r.threw THEN r
       ELSE IF HasToken(r.value) /\ throwOnMissing THEN [threw |-> TRUE, value |-> r.value]
       ELSE r

-----------------------------------------------------------------------------
(* Inputs of the route pipeline *)

\* the segments of the routes that are matched: what parse makes of a static,
\* a dynamic, a catch-all and an optional catch-all name
MatchSegments ==
    {parse(r) : r \in {
        <<"a">>, <<"[", "x", "]">>, <<"[", ".", ".", ".", "y", "]">>,
        <<"[", "[", ".", ".", ".", "z", "]", "]">> }}

\* the path components parameter values are made of
Components == {<<"u">>, <<"v">>}

ValuesFor(type) ==
    IF type = "dynamic" THEN {Scalar(c) : c \in Components}
    ELSE {Array(a) : a \in SeqsUpTo(Components, MaxItems) \ {<<>>}}

\* the named segments of a chain, one per name, in chain order
RECURSIVE NamedOnce(_, _)
NamedOnce(segments, seen) ==
    IF Len(segments) = 0 THEN <<>>
    ELSE LET s == Head(segments) IN
         IF "name" \notin DOMAIN s \/ s.name \in seen THEN NamedOnce(Tail(segments), seen)
         ELSE <<s>> \o NamedOnce(Tail(segments), seen \cup {s.name})

\* the params objects that give each name of the segments a value of its kind
RECURSIVE EntriesFor(_)
EntriesFor(segments) ==
    IF Len(segments) = 0 THEN {<<>>}
    ELSE {<<[name |-> Head(segments).name, value |-> v]>> \o rest :
            v \in ValuesFor(Head(segments).type), rest \in EntriesFor(Tail(segments))}

\* the concrete paths of arbitrary requests
PathParts == {<<"/", "a">>, <<"/", "u">>, <<"/">>}

RequestPaths == Concats(PathParts, MaxPathParts)

-----------------------------------------------------------------------------
(* Spec: build a route from a chain, generate a path from params, match it *)

Init ==
    /\ pc = "ready"
    /\ chain \in SeqsUpTo(MatchSegments, MaxChain)
    /\ params \in EntriesFor(NamedOnce(chain, {}))
    /\ options = NoOptions
    /\ route = <<>> /\ path = <<>> /\ result = <<>>
    /\ IdleParser /\ IdleCache /\ IdleSorter /\ IdleOrbit

GeneratePath ==
    /\ pc = "built"
    /\ path = <<>>
    /\ LET g == generatePath(route[1].pattern, params, options)
       IN IF g.threw
          THEN pc' = "threw" /\ path' = path
          ELSE pc' = "generated" /\ path' = <<g.value>>
    /\ UNCHANGED <<orbitVars, chain, params, options, route, result, parserVars, cacheVars, sorterVars>>

\* compiles after a call of compile for pattern p whose body ran or not
Counted(p, ran) ==
    IF ran
    THEN [q \in DOMAIN compiles \cup {p} |->
             IF q = p THEN (IF p \in DOMAIN compiles THEN compiles[p] + 1 ELSE 1)
             ELSE compiles[q]]
    ELSE compiles

Match ==
    /\ pc \in {"built", "generated"}
    /\ path # <<>>
    /\ LET m == match(path[1], route[1], cache)
       IN /\ result' = <<m.value>>
          /\ cache' = m.cache
          /\ compiles' = Counted(route[1].pattern, m.ran)
          /\ matched' = matched \cup {route[1].pattern}
    /\ pc' = "matched"
    /\ UNCHANGED <<orbitVars, chain, params, options, route, path, parserVars, sorterVars>>

Next == Build \/ GeneratePath \/ Match

Spec == Init /\ [][Next]_vars

\* params as the map it is
AsMap(entries) ==
    [n \in {entries[i].name : i \in 1..Len(entries)} |->
        (CHOOSE e \in {entries[i] : i \in 1..Len(entries)} : e.name = n).value]

\* each parameter name occurs once in the chain, and one segment at most is of
\* the catch-all family: the chains whose generated path determines the params
Unambiguous(segments) ==
    /\ Len(NamedOnce(segments, {})) = Len(SelectSeq(segments, LAMBDA s : "name" \in DOMAIN s))
    /\ Len(SelectSeq(segments, LAMBDA s : s.type \in CatchAllTypes)) <= 1

\* C1: round trip of build, generatePath and match.  For a chain of static,
\* dynamic, catchAll and optionalCatchAll segments and a consistent parameter
\* assignment (a string for each dynamic name, a non-empty array of any length
\* >= 1 for each catch-all-family name), generatePath returns a path, match of
\* that path against the built route is a hit, and its params equal params.
\* It is stated for the chains with distinct names and one catch-all-family
\* segment at most, where the claim has nothing else to fail on.
RoundTrip ==
    Unambiguous(chain) =>
        /\ pc # "threw"
        /\ pc = "matched" => result[1].hit /\ result[1].params = AsMap(params)

-----------------------------------------------------------------------------
(* SpecMatch: build a route from a chain and match an arbitrary path       *)

InitMatch ==
    /\ pc = "ready"
    /\ chain \in SeqsUpTo(MatchSegments, MaxChain)
    /\ path \in {<<p>> : p \in RequestPaths}
    /\ params = <<>> /\ options = <<>> /\ route = <<>> /\ result = <<>>
    /\ IdleParser /\ IdleCache /\ IdleSorter /\ IdleOrbit

NextMatch == Build \/ Match

SpecMatch == InitMatch /\ [][NextMatch]_vars

\* the types of the segments of the chain that carry the name n
TypesOf(n) ==
    {chain[i].type : i \in {j \in 1..Len(chain) : "name" \in DOMAIN chain[j] /\ chain[j].name = n}}

\* the names and the captures of the match of the path against the route's
\* pattern, as the expression gives them: <<>> when the path does not match
Captured == RegexMatch(path[1], CompileBody(route[1].pattern).regex)

CapturedNames == CompileBody(route[1].pattern).names

\* the non-empty '/'-separated pieces of a text
PiecesOf(text) == FilterBoolean(Split(text, <<"/">>))

\* C6: shape of match params.  In a successful match the value of a dynamic
\* parameter is a string without '/'; an array value occurs only for a
\* catchAll or optionalCatchAll parameter and holds the captured text split
\* on '/' with the empty pieces dropped; an optional catch-all that captured
\* nothing is absent from params; a path that does not match yields null.
MatchShape ==
    pc = "matched" =>
        LET r == result[1] IN
        IF Captured = <<>> THEN r = Null
        ELSE
        /\ r.hit
        /\ \A n \in DOMAIN r.params :
            /\ TypesOf(n) = {"dynamic"} =>
                  ~r.params[n].isArray /\ ~Includes(r.params[n].items[1], "/")
            /\ r.params[n].isArray =>
                  /\ TypesOf(n) \cap CatchAllTypes # {}
                  /\ \E i \in 1..Len(CapturedNames) :
                        /\ CapturedNames[i] = n
                        /\ Captured[1][i] # <<>>
                        /\ r.params[n].items = PiecesOf(Captured[1][i][1])
        /\ \A i \in 1..Len(CapturedNames) :
              (TypesOf(CapturedNames[i]) = {"optionalCatchAll"}
                  /\ \A j \in 1..Len(CapturedNames) :
                        CapturedNames[j] = CapturedNames[i] => Captured[1][j] = <<>>)
              => CapturedNames[i] \notin DOMAIN r.params

\* '/a' has matched '/a/:z*' with z absent, as '/docs' matches '/docs/:slug*'
MatchShapeWitness ==
    /\ pc = "matched"
    /\ route[1].pattern = <<"/", "a", "/", ":", "z", "*">>
    /\ path[1] = <<"/", "a">>
    /\ result[1].hit
    /\ DOMAIN result[1].params = {}

\* C7: catch-all capture.  Whenever a route whose pattern holds a catch-all
\* token ':name+' matches a path, params[name] is an array of the n >= 1 path
\* components the token captured, for every n >= 1.
CatchAllArray ==
    (pc = "matched" /\ result[1].hit) =>
        \A i \in 1..Len(CapturedNames) :
            (TypesOf(CapturedNames[i]) = {"catchAll"}
                /\ Len(PiecesOf(Captured[1][i][1])) >= 1
                /\ Cardinality({j \in 1..Len(CapturedNames) : CapturedNames[j] = CapturedNames[i]}) = 1)
            => /\ CapturedNames[i] \in DOMAIN result[1].params
               /\ result[1].params[CapturedNames[i]] = Array(PiecesOf(Captured[1][i][1]))

-----------------------------------------------------------------------------
(* SpecCache: match calls in any order, on any matcher, all instances      *)
(* sharing the module's cache                                              *)

\* the matcher instances createMatcher has returned
Matchers == {"matcher1", "matcher2"}

CacheRoutes ==
    {build(c) : c \in SeqsUpTo(MatchSegments, 1) \cup
        {<<parse(<<"a">>), parse(<<"[", "x", "]">>)>>}}

CachePaths == {<<"/", "a">>, <<"/", "a", "/", "u">>, <<"/", "u", "/", "v">>}

InitCache ==
    /\ pc = "idle"
    /\ chain = <<>> /\ params = <<>> /\ options = <<>> /\ route = <<>> /\ path = <<>> /\ result = <<>>
    /\ IdleParser /\ IdleCache /\ IdleSorter /\ IdleOrbit

\* matcher.match(path, route) on the instance matcher; pc records whether the
\* call compiled the pattern or found it in the cache
MatchCall(matcher, p, r) ==
    /\ pc \in {"idle", "compiled", "cached"}
    /\ r.pattern \in DOMAIN compiles => compiles[r.pattern] < MaxCompiles
    /\ LET m == match(p, r, cache)
       IN /\ result' = <<m.value>>
          /\ cache' = m.cache
          /\ compiles' = Counted(r.pattern, m.ran)
          /\ pc' = IF m.ran THEN "compiled" ELSE "cached"
    /\ matched' = matched \cup {r.pattern}
    /\ route' = <<r>>
    /\ path' = <<p>>
    /\ UNCHANGED <<orbitVars, chain, params, options, parserVars, sorterVars>>

NextCache ==
    \E matcher \in Matchers, p \in CachePaths, r \in CacheRoutes : MatchCall(matcher, p, r)

SpecCache == InitCache /\ [][NextCache]_vars

\* C5: compile-once cache.  Over any sequence of match calls, on any number
\* of matcher instances, each distinct pattern is compiled at most once;
\* after every call the keys of the cache are exactly the patterns matched so
\* far; an entry once stored is never replaced or removed.
CompileOnce ==
    /\ [](/\ \A q \in DOMAIN compiles : compiles[q] <= 1
          /\ DOMAIN cache = matched)
    /\ [][\A q \in DOMAIN cache : q \in DOMAIN cache' /\ cache'[q] = cache[q]]_vars

\* a call has found its pattern in a cache that holds two patterns
CompileOnceWitness ==
    /\ pc = "cached"
    /\ Cardinality(DOMAIN cache) >= 2
    /\ route[1].pattern \in DOMAIN cache

-----------------------------------------------------------------------------
(* RouteNode and RouteTree *)

\* components of a node: a record over a subset of these keys, file path each
ComponentKeys == {"page", "layout", "default"}

NoComponents == [k \in {} |-> ""]

\* a RouteNode with only the required fields; slots, intercepts and middleware
\* are optional fields, present or absent in the record's domain.  slots, a
\* Record<string, RouteNode>, is the sequence of its [name, node] entries in
\* property order, the order Object.entries and Object.values go through.
Node(seg, comps, kids) == [segment |-> seg, components |-> comps, children |-> kids]

WithSlots(node, slots) == [slots |-> slots] @@ node

WithIntercepts(node, intercepts) == [intercepts |-> intercepts] @@ node

WithMiddleware(node, mw) == [middleware |-> mw] @@ node

HasSlots(node) == "slots" \in DOMAIN node

HasIntercepts(node) == "intercepts" \in DOMAIN node

HasMiddleware(node) == "middleware" \in DOMAIN node

-----------------------------------------------------------------------------
(* RouteSorter *)

SEGMENT_PRIORITY ==
    [t \in SegmentType |->
        CASE t = "static" -> 0
          [] t = "dynamic" -> 1
          [] t = "catchAll" -> 2
          [] t = "optionalCatchAll" -> 3
          [] t = "group" -> 0
          [] t = "parallel" -> 0
          [] t = "interceptSame" -> 0
          [] t = "interceptParent" -> 0
          [] t = "interceptRoot" -> 0]

getPriority(node) == SEGMENT_PRIORITY[node.segment.type]

\* String.prototype.localeCompare with no locale argument: the host's default
\* collation.  Modelled as the CLDR root collation over the characters a
\* directory name is made of: punctuation, then digits, then letters at the
\* primary level, and lower case before upper case at the tertiary level.
CollationOrder ==
    <<"_", "-", ".", "(", ")", "[", "]", "@",
      "0", "1", "2", "3", "4", "5", "6", "7", "8", "9",
      "a", "b", "c", "d", "e", "f", "g", "h", "i", "j", "k", "l", "m",
      "n", "o", "p", "q", "r", "s", "t", "u", "v", "w", "x", "y", "z">>

UpperCase ==
    <<"A", "B", "C", "D", "E", "F", "G", "H", "I", "J", "K", "L", "M",
      "N", "O", "P", "Q", "R", "S", "T", "U", "V", "W", "X", "Y", "Z">>

IsUpper(c) == \E i \in 1..Len(UpperCase) : UpperCase[i] = c

ToLower(c) ==
    IF IsUpper(c)
    THEN CollationOrder[18 + (CHOOSE i \in 1..Len(UpperCase) : UpperCase[i] = c)]
    ELSE c

PrimaryWeight(c) == CHOOSE i \in 1..Len(CollationOrder) : CollationOrder[i] = ToLower(c)

TertiaryWeight(c) == IF IsUpper(c) THEN 1 ELSE 0

\* three-way comparison of two weight sequences, a proper prefix first
RECURSIVE CompareWeights(_, _)
CompareWeights(k1, k2) ==
    IF k1 = <<>> /\ k2 = <<>> THEN 0
    ELSE IF k1 = <<>> THEN -1
    ELSE IF k2 = <<>> THEN 1
    ELSE IF Head(k1) < Head(k2) THEN -1
    ELSE IF Head(k1) > Head(k2) THEN 1
    ELSE CompareWeights(Tail(k1), Tail(k2))

localeCompare(a, b) ==
    LET primary == CompareWeights([i \in 1..Len(a) |-> PrimaryWeight(a[i])],
                                  [i \in 1..Len(b) |-> PrimaryWeight(b[i])])
    IN  IF primary # 0 THEN primary
        ELSE CompareWeights([i \in 1..Len(a) |-> TertiaryWeight(a[i])],
                            [i \in 1..Len(b) |-> TertiaryWeight(b[i])])

\* compare without its tie-break on the raw text
compare_priorityOnly(a, b) == getPriority(a) - getPriority(b)

compare(a, b) ==
    LET priorityDiff == getPriority(a) - getPriority(b)
    IN  IF priorityDiff # 0 THEN priorityDiff
        ELSE localeCompare(a.segment.raw, b.segment.raw)

\* Array.prototype.sort(compare): sorts the array it is called on, stably.
\* InsertSorted places x behind every element that does not compare after it.
RECURSIVE InsertSorted(_, _)
InsertSorted(s, x) ==
    IF s = <<>> THEN <<x>>
    ELSE IF compare(s[Len(s)], x) <= 0 THEN Append(s, x)
    ELSE Append(InsertSorted(DropLast(s, 1), x), s[Len(s)])

RECURSIVE ArraySort(_)
ArraySort(s) ==
    IF s = <<>> THEN <<>>
    ELSE InsertSorted(ArraySort(DropLast(s, 1)), s[Len(s)])

\* sort without the copy: Array.prototype.sort applied to the caller's array
sort_inPlace(ns) == [input |-> ArraySort(ns), output |-> ArraySort(ns)]

\* sort(nodes): [...nodes] is a fresh array, sorted in place and returned.
\* input is the caller's array after the call, output the array returned.
sort(ns) == [input |-> ns, output |-> ArraySort(ns)]

-----------------------------------------------------------------------------
(* SpecSort: one call of sort on an arbitrary list of sibling nodes *)

\* longest sibling list handed to sort
MaxSiblings == 3

Leaf(r, comps) == Node(parse(r), comps, <<>>)

\* sibling nodes of every segment type; two of them share the segment "a"
SortNodes ==
    {Leaf(r, [page |-> "page.tsx"]) :
        r \in {<<"a">>, <<"B">>, <<"1">>, <<"_">>,
               <<"[", "x", "]">>, <<"[", "y", "]">>,
               <<"[", ".", ".", ".", "z", "]">>,
               <<"[", "[", ".", ".", ".", "w", "]", "]">>,
               <<"(", "g", ")">>, <<"@", "m">>,
               <<"(", ".", ")", "a">>, <<"(", ".", ".", ")", "a">>}}
    \cup {Leaf(<<"a">>, [layout |-> "layout.tsx"])}

InitSort ==
    /\ pc = "ready"
    /\ nodes \in SeqsUpTo(SortNodes, MaxSiblings)
    /\ tree = <<>>
    /\ output = <<>>
    /\ trace = <<>>
    /\ IdleParser /\ IdleRoute /\ IdleCache /\ IdleOrbit

Sort ==
    /\ pc = "ready"
    /\ LET r == sort(nodes)
       IN /\ nodes' = r.input
          /\ output' = <<r.output>>
    /\ pc' = "sorted"
    /\ UNCHANGED <<orbitVars, tree, trace, parserVars, routeVars, cacheVars>>

NextSort == Sort

SpecSort == InitSort /\ [][NextSort]_vars

\* the priority the sorter documents for each segment type
PriorityOf(node) ==
    CASE node.segment.type = "dynamic" -> 1
      [] node.segment.type = "catchAll" -> 2
      [] node.segment.type = "optionalCatchAll" -> 3
      [] OTHER -> 0

\* a is not after b in the text order of raw names
NotAfter(a, b) == localeCompare(a.segment.raw, b.segment.raw) <= 0

Occurrences(s, x) == Cardinality({i \in 1..Len(s) : s[i] = x})

IsPermutation(s, t) ==
    /\ Len(s) = Len(t)
    /\ \A i \in 1..Len(s) : Occurrences(s, s[i]) = Occurrences(t, s[i])

SiblingOrder(s) ==
    \A i \in 1..(Len(s) - 1) :
        \/ PriorityOf(s[i]) < PriorityOf(s[i + 1])
        \/ PriorityOf(s[i]) = PriorityOf(s[i + 1]) /\ NotAfter(s[i], s[i + 1])

\* C8: sorter ordering.  For every list of sibling nodes, sort returns a
\* permutation of the input in which every adjacent pair (a, b) has
\* priority(a) <= priority(b), with static, group, parallel and the intercept
\* types at 0, dynamic 1, catchAll 2, optionalCatchAll 3, and, at equal
\* priority, raw(a) not after raw(b) in the text order.
SorterOrdering ==
    (pc = "sorted" /\ tree = <<>>) =>
        /\ IsPermutation(output[1], nodes)
        /\ SiblingOrder(output[1])

\* sort has reordered three siblings, by priority and by raw text
SorterOrderingWitness ==
    /\ pc = "sorted" /\ tree = <<>>
    /\ Len(nodes) = 3
    /\ ~SiblingOrder(nodes)
    /\ output[1] # nodes
    /\ PriorityOf(output[1][1]) = PriorityOf(output[1][2])
    /\ output[1][1].segment.raw # output[1][2].segment.raw
    /\ PriorityOf(output[1][2]) < PriorityOf(output[1][3])

-----------------------------------------------------------------------------
(* RouteSorter.arrange *)

RECURSIVE arrange(_)

\* arrange without the descent: the children of the node are sorted, the
\* nodes below them are left as they are
arrange_shallow(node) ==
    [input |-> node,
     output |-> [node EXCEPT !.children = sort(node.children).output]]

\* arrange(node): the children are sorted into a new array and each arranged,
\* every slots entry and every intercepts entry is arranged, and a new node is
\* built by spreading `node` and overriding children, slots and intercepts.
\* output is the node returned; input is `node` after the call, which holds
\* what sort and the nested calls left in its arrays.
arrange(node) ==
    LET sortedNodes == sort(node.children)
        sortedChildren ==
            [i \in 1..Len(sortedNodes.output) |-> arrange(sortedNodes.output[i]).output]
        childrenAfter ==
            [i \in 1..Len(sortedNodes.input) |-> arrange(sortedNodes.input[i]).input]
        sortedSlots ==
            [i \in 1..Len(node.slots) |->
                [name |-> node.slots[i].name, node |-> arrange(node.slots[i].node).output]]
        slotsAfter ==
            [i \in 1..Len(node.slots) |->
                [name |-> node.slots[i].name, node |-> arrange(node.slots[i].node).input]]
        sortedIntercepts ==
            [i \in 1..Len(node.intercepts) |-> arrange(node.intercepts[i]).output]
        interceptsAfter ==
            [i \in 1..Len(node.intercepts) |-> arrange(node.intercepts[i]).input]
        Rebuilt(children, slots, intercepts) ==
            [f \in DOMAIN node |->
                CASE f = "children" -> children
                  [] f = "slots" -> slots
                  [] f = "intercepts" -> intercepts
                  [] OTHER -> node[f]]
    IN  [input |-> Rebuilt(childrenAfter, slotsAfter, interceptsAfter),
         output |-> Rebuilt(sortedChildren, sortedSlots, sortedIntercepts)]

-----------------------------------------------------------------------------
(* Route trees handed to the tree operations *)

\* longest children list of the root of a generated tree
MaxChildren == 2

Seg(r) == parse(r)

PageA == Leaf(<<"a">>, [page |-> "a/page.tsx"])

PageX == Leaf(<<"[", "x", "]">>, [page |-> "x/page.tsx"])

PageZ == Leaf(<<"[", ".", ".", ".", "z", "]">>, [page |-> "z/page.tsx"])

\* a directory with a middleware file and no page
GuardB == WithMiddleware(Leaf(<<"b">>, NoComponents), "b/middleware.ts")

\* folders whose children are not in sorted order
FolderS == Node(Seg(<<"s">>), [layout |-> "s/layout.tsx"], <<PageX, PageA>>)

GroupG == Node(Seg(<<"(", "g", ")">>), NoComponents, <<GuardB, PageZ, PageA>>)

Slot(name, comps, kids) ==
    [name |-> <<name>>, node |-> Node(Seg(<<"@", name>>), comps, kids)]

InterceptA == Node(Seg(<<"(", ".", ")", "a">>), [page |-> "ia/page.tsx"], <<PageX, PageA>>)

InterceptB == Node(Seg(<<"(", ".", ".", ")", "b">>), NoComponents, <<>>)

\* a folder that carries a slot and intercepts of its own
Nested ==
    WithIntercepts(
        WithSlots(Node(Seg(<<"n">>), [page |-> "n/page.tsx"], <<GuardB, PageA>>),
                  <<Slot("m", NoComponents, <<PageZ, PageX>>)>>),
        <<InterceptA>>)

Level1 == {PageA, PageX, PageZ, GuardB, FolderS, GroupG, Nested}

SlotMaps ==
    {<<Slot("m", NoComponents, <<>>)>>,
     <<Slot("m", [default |-> "m/default.tsx"], <<PageX, PageA>>)>>,
     <<Slot("m", NoComponents, <<PageX, PageA>>), Slot("k", [page |-> "k/page.tsx"], <<>>)>>}

\* "(.)a" sorts after "(..)b": the second list is not in sorted order
InterceptLists == {<<InterceptA>>, <<InterceptA, InterceptB>>}

Roots ==
    LET plain == {Node(Seg(<<>>), [layout |-> "layout.tsx"], kids) :
                     kids \in SeqsUpTo(Level1, MaxChildren)}
        slotted == plain \cup {WithSlots(n, s) : n \in plain, s \in SlotMaps}
    IN  slotted \cup {WithIntercepts(n, i) : n \in slotted, i \in InterceptLists}

Trees == {[root |-> r] : r \in Roots}

-----------------------------------------------------------------------------
(* SpecTree: one call of a tree operation on an arbitrary route tree *)

InitTree ==
    /\ pc = "ready"
    /\ tree \in Trees
    /\ nodes = tree.root.children
    /\ output = <<>>
    /\ trace = <<>>
    /\ IdleParser /\ IdleRoute /\ IdleCache /\ IdleOrbit

\* sorter.arrange(tree.root)
Arrange ==
    /\ pc = "ready"
    /\ tree # <<>>
    /\ LET r == arrange(tree.root)
       IN /\ tree' = [tree EXCEPT !.root = r.input]
          /\ output' = <<r.output>>
    /\ pc' = "arranged"
    /\ UNCHANGED <<orbitVars, nodes, trace, parserVars, routeVars, cacheVars>>

-----------------------------------------------------------------------------
(* RouteValidator *)

\* the array a loop fills with push(...array) for each array of `arrays`
RECURSIVE Flatten(_)
Flatten(arrays) ==
    IF arrays = <<>> THEN <<>>
    ELSE Head(arrays) \o Flatten(Tail(arrays))

\* segments.map(s => s.raw)
Raws(segments) == [i \in 1..Len(segments) |-> segments[i].raw]

\* a ValidationError; message is the template literal, its fixed text followed
\* by the interpolated string
Error(type, text, arg, at, segments) ==
    [type |-> type, message |-> <<text, arg>>, path |-> at, segments |-> segments]

checkDuplicates(segments, at) ==
    LET names == Raws(segments)
        \* names.indexOf(name) !== index: an earlier element holds the same name
        isDuplicate(i) == \E j \in 1..(i - 1) : names[j] = names[i]
        RECURSIVE filtered(_)
        filtered(i) ==
            IF i > Len(names) THEN <<>>
            ELSE (IF isDuplicate(i) THEN <<names[i]>> ELSE <<>>) \o filtered(i + 1)
        duplicateNames == filtered(1)
    IN  IF Len(duplicateNames) > 0
        THEN <<Error("DUPLICATE_STATIC", "Duplicate static segments: ",
                     Join(duplicateNames, <<",", " ">>), at,
                     SelectSeq(segments,
                               LAMBDA s : \E i \in 1..Len(duplicateNames) :
                                              duplicateNames[i] = s.raw))>>
        ELSE <<>>

checkConflicts(groups, at) ==
    LET hasCatchAll == Len(groups.catchAll) > 0 \/ Len(groups.optionalCatchAll) > 0
    IN  (IF Len(groups.dynamic) > 1
         THEN <<Error("MULTIPLE_DYNAMIC", "Multiple dynamic segments at same level: ",
                      Join(Raws(groups.dynamic), <<",", " ">>), at, groups.dynamic)>>
         ELSE <<>>)
        \o
        (IF Len(groups.dynamic) > 0 /\ hasCatchAll
         THEN <<Error("DYNAMIC_CATCH_CONFLICT",
                      "Dynamic segment conflicts with catch-all segment", <<>>, at,
                      groups.dynamic \o groups.catchAll \o groups.optionalCatchAll)>>
         ELSE <<>>)

\* checkCatchAll counting the catchAll group only
checkCatchAll_catchAllOnly(groups, at) ==
    IF Len(groups.catchAll) > 1
    THEN <<Error("MULTIPLE_CATCH_ALL", "Multiple catch-all segments: ",
                 Join(Raws(groups.catchAll), <<",", " ">>), at, groups.catchAll)>>
    ELSE <<>>

checkCatchAll(groups, at) ==
    LET allCatchAll == groups.catchAll \o groups.optionalCatchAll
    IN  IF Len(allCatchAll) > 1
        THEN <<Error("MULTIPLE_CATCH_ALL", "Multiple catch-all segments: ",
                     Join(Raws(allCatchAll), <<",", " ">>), at, allCatchAll)>>
        ELSE <<>>

RECURSIVE hasPageInTree(_)

\* hasPageInTree without its loop over the slots
hasPageInTree_noSlots(node) ==
    \/ "page" \in DOMAIN node.components
    \/ \E i \in 1..Len(node.children) : hasPageInTree(node.children[i])

hasPageInTree(node) ==
    \/ "page" \in DOMAIN node.components
    \/ \E i \in 1..Len(node.children) : hasPageInTree(node.children[i])
    \/ /\ HasSlots(node)
       /\ \E i \in 1..Len(node.slots) : hasPageInTree(node.slots[i].node)

\* the segments of the children of the four URL types, grouped by type
GroupsOf(node) ==
    LET segs == [i \in 1..Len(node.children) |-> node.children[i].segment]
        OfType(t) == SelectSeq(segs, LAMBDA s : s.type = t)
    IN  [static |-> OfType("static"), dynamic |-> OfType("dynamic"),
         catchAll |-> OfType("catchAll"), optionalCatchAll |-> OfType("optionalCatchAll")]

\* The result of a validateNode call, with its history: errors is the array
\* the call returns; owners[i] is the address of the node whose validateNode
\* call pushed errors[i]; visited lists the addresses validateNode was called
\* on, in call order.  An address is the path of <<property, index>> steps
\* from the root.
Reported(errors, addr) ==
    [errors |-> errors, owners |-> [i \in 1..Len(errors) |-> addr], visited |-> <<>>]

Visit(addr) == [errors |-> <<>>, owners |-> <<>>, visited |-> <<addr>>]

\* the results pushed last to first
Pushed_lastFirst(results) ==
    [errors |-> Flatten([i \in 1..Len(results) |-> results[Len(results) + 1 - i].errors]),
     owners |-> Flatten([i \in 1..Len(results) |-> results[Len(results) + 1 - i].owners]),
     visited |-> Flatten([i \in 1..Len(results) |-> results[Len(results) + 1 - i].visited])]

\* errors.push(...result) for each result in turn
Pushed(results) ==
    [errors |-> Flatten([i \in 1..Len(results) |-> results[i].errors]),
     owners |-> Flatten([i \in 1..Len(results) |-> results[i].owners]),
     visited |-> Flatten([i \in 1..Len(results) |-> results[i].visited])]

\* the intercepts loop of validateNode without its entries
InterceptsOf_none(node) == <<>>

\* if (node.intercepts) for (const interceptNode of node.intercepts)
InterceptsOf(node) == IF HasIntercepts(node) THEN node.intercepts ELSE <<>>

\* if (node.slots) for (const [slotName, slotNode] of Object.entries(node.slots))
SlotsOf(node) == IF HasSlots(node) THEN node.slots ELSE <<>>

\* hasValidComponent accepting a page only
hasValidComponent_pageOnly(slotNode) == "page" \in DOMAIN slotNode.components

\* 'page' in slotNode.components || 'default' in slotNode.components
hasValidComponent(slotNode) ==
    \/ "page" \in DOMAIN slotNode.components
    \/ "default" \in DOMAIN slotNode.components

RECURSIVE validateNode(_, _, _)
validateNode(node, at, addr) ==
    LET currentPath ==
            at \o (IF node.segment.raw # <<>> THEN <<"/">> \o node.segment.raw ELSE <<>>)
        groups == GroupsOf(node)
        siblingErrors ==
            checkDuplicates(groups.static, currentPath)
            \o checkConflicts(groups, currentPath)
            \o checkCatchAll(groups, currentPath)
        childErrors ==
            Pushed([i \in 1..Len(node.children) |->
                       validateNode(node.children[i], currentPath,
                                    Append(addr, <<"children", i>>))])
        SlotErrors(entry, i) ==
            LET slotPath == currentPath \o <<"/", "@">> \o entry.name
            IN  Pushed(<<
                    Reported(
                        IF ~hasValidComponent(entry.node) /\ ~hasPageInTree(entry.node)
                        THEN <<Error("INVALID_SLOT_STRUCTURE",
                                     "Parallel route slot '@${slotName}' must contain a 'page' or 'default' component",
                                     entry.name, slotPath, <<entry.node.segment>>)>>
                        ELSE <<>>,
                        addr),
                    validateNode(entry.node, slotPath, Append(addr, <<"slots", i>>))>>)
        InterceptErrors(interceptNode, i) ==
            LET interceptPath == currentPath \o <<"/">> \o interceptNode.segment.raw
            IN  Pushed(<<
                    Reported(
                        IF "page" \notin DOMAIN interceptNode.components
                        THEN <<Error("INVALID_INTERCEPT_STRUCTURE",
                                     "Intercept route '${interceptNode.segment.raw}' must contain a 'page' component",
                                     interceptNode.segment.raw, interceptPath,
                                     <<interceptNode.segment>>)>>
                        ELSE <<>>,
                        addr),
                    validateNode(interceptNode, currentPath,
                                 Append(addr, <<"intercepts", i>>))>>)
        slotErrors ==
            Pushed([i \in 1..Len(SlotsOf(node)) |-> SlotErrors(SlotsOf(node)[i], i)])
        interceptErrors ==
            Pushed([i \in 1..Len(InterceptsOf(node)) |->
                       InterceptErrors(InterceptsOf(node)[i], i)])
        reportedPath == IF currentPath # <<>> THEN currentPath ELSE <<"/">>
        middlewareErrors ==
            IF HasMiddleware(node) /\ node.middleware # ""
                 /\ ~("page" \in DOMAIN node.components \/ hasPageInTree(node))
            THEN <<Error("ORPHAN_MIDDLEWARE",
                         "Middleware at '${currentPath || '/'}' has no associated page component",
                         reportedPath, reportedPath, <<node.segment>>)>>
            ELSE <<>>
    IN  Pushed(<<Visit(addr), Reported(siblingErrors, addr), childErrors, slotErrors,
                 interceptErrors, Reported(middlewareErrors, addr)>>)

\* validate(tree): the tree is only read; errors are pushed into arrays local
\* to the call
validate(t) ==
    LET errors == validateNode(t.root, <<>>, <<>>).errors
    IN  [valid |-> Len(errors) = 0, errors |-> errors]

\* the history of the validate call
validateTrace(t) ==
    LET r == validateNode(t.root, <<>>, <<>>)
    IN  [owners |-> r.owners, visited |-> r.visited]

-----------------------------------------------------------------------------
(* StaticCollector *)

DynamicTypes_dynamicOnly == {"dynamic"}

DynamicTypes == {"dynamic", "catchAll", "optionalCatchAll"}

RECURSIVE collectNode(_, _)
collectNode(node, parentSegments) ==
    LET currentSegments == Append(parentSegments, node.segment)
        hasPage == "page" \in DOMAIN node.components
        dynamicSegments == SelectSeq(currentSegments, LAMBDA s : s.type \in DynamicTypes)
        named == SelectSeq(dynamicSegments, LAMBDA s : "name" \in DOMAIN s)
        own ==
            IF hasPage /\ Len(dynamicSegments) > 0
            THEN <<[pattern |-> build(currentSegments).pattern,
                    paramNames |-> [i \in 1..Len(named) |-> named[i].name],
                    component |-> node.components.page]>>
            ELSE <<>>
        fromChildren ==
            Flatten([i \in 1..Len(node.children) |->
                        collectNode(node.children[i], currentSegments)])
        fromSlots ==
            IF HasSlots(node)
            THEN Flatten([i \in 1..Len(node.slots) |->
                             collectNode(node.slots[i].node, currentSegments)])
            ELSE <<>>
    IN  own \o fromChildren \o fromSlots

collect(t) == collectNode(t.root, <<>>)

-----------------------------------------------------------------------------
(* serializer *)

\* JavaScript values, as JSON.stringify reads them and JSON.parse makes them:
\* each carries what typeof and Array.isArray tell of it.  The properties
\* of an object are a sequence of key and value, in property order.
JsNull == [kind |-> "null"]

JsString(s) == [kind |-> "string", text |-> s]

JsNumber(n) == [kind |-> "number", number |-> n]

JsArray(items) == [kind |-> "array", items |-> items]

JsObject(props) == [kind |-> "object", props |-> props]

Prop(k, v) == [key |-> k, value |-> v]

\* the order in which the component keys of a node are held
ComponentOrder == <<"layout", "page", "default">>

\* a Segment as the value it is
JsSegment(seg) ==
    JsObject(<<Prop("raw", JsString(seg.raw)), Prop("type", JsString(seg.type))>>
             \o (IF "name" \in DOMAIN seg THEN <<Prop("name", JsString(seg.name))>> ELSE <<>>)
             \o (IF "level" \in DOMAIN seg THEN <<Prop("level", JsNumber(seg.level))>> ELSE <<>>))

JsComponents(comps) ==
    LET keys == SelectSeq(ComponentOrder, LAMBDA k : k \in DOMAIN comps)
    IN  JsObject([i \in 1..Len(keys) |-> Prop(keys[i], JsString(comps[keys[i]]))])

\* a RouteNode as the value it is
RECURSIVE JsNode(_)
JsNode(node) ==
    JsObject(<<Prop("segment", JsSegment(node.segment)),
               Prop("components", JsComponents(node.components)),
               Prop("children",
                    JsArray([i \in 1..Len(node.children) |-> JsNode(node.children[i])]))>>
             \o (IF HasSlots(node)
                 THEN <<Prop("slots",
                             JsObject([i \in 1..Len(node.slots) |->
                                          Prop(node.slots[i].name, JsNode(node.slots[i].node))]))>>
                 ELSE <<>>)
             \o (IF HasIntercepts(node)
                 THEN <<Prop("intercepts",
                             JsArray([i \in 1..Len(node.intercepts) |->
                                         JsNode(node.intercepts[i])]))>>
                 ELSE <<>>)
             \o (IF HasMiddleware(node)
                 THEN <<Prop("middleware", JsString(node.middleware))>>
                 ELSE <<>>))

\* a RouteTree as the value it is
JsTree(t) == JsObject(<<Prop("root", JsNode(t.root))>>)

\* the value a JSON document written for v denotes: JSON has no number that
\* is not finite and writes null for it
RECURSIVE Written(_)
Written(v) ==
    CASE v.kind = "number" -> IF v.number = Infinity THEN JsNull ELSE v
      [] v.kind = "array" -> JsArray([i \in 1..Len(v.items) |-> Written(v.items[i])])
      [] v.kind = "object" ->
             JsObject([i \in 1..Len(v.props) |->
                          Prop(v.props[i].key, Written(v.props[i].value))])
      [] OTHER -> v

\* a text that is not a JSON document
NotJson == [parsable |-> FALSE]

\* JSON.stringify(value, null, 2): the text of the document
JsonStringify(v) == [parsable |-> TRUE, document |-> Written(v)]

\* JSON.parse(text): the value of the document, or a throw
JsonParse(text) ==
    IF text.parsable THEN [threw |-> FALSE, value |-> text.document]
    ELSE [threw |-> TRUE]

serialize(t) == JsonStringify(JsTree(t))

\* typeof obj === 'object': arrays and null are objects too
TypeofObject(v) == v.kind \in {"object", "array", "null"}

\* key in obj, for an object or an array and a key that is no array index
In(key, v) ==
    v.kind = "object" /\ \E i \in 1..Len(v.props) : v.props[i].key = key

\* obj[key] for a key that is in obj
At(v, key) ==
    v.props[CHOOSE i \in 1..Len(v.props) :
                /\ v.props[i].key = key
                /\ \A j \in (i + 1)..Len(v.props) : v.props[j].key # key].value

isRouteNode_anyChildren(obj) ==
    IF ~TypeofObject(obj) \/ obj.kind = "null" THEN FALSE
    ELSE In("segment", obj) /\ In("components", obj) /\ In("children", obj)

isRouteNode(obj) ==
    IF ~TypeofObject(obj) \/ obj.kind = "null" THEN FALSE
    ELSE /\ In("segment", obj)
         /\ In("components", obj)
         /\ In("children", obj)
         /\ At(obj, "children").kind = "array"

isRouteTree(obj) ==
    IF ~TypeofObject(obj) \/ obj.kind = "null" THEN FALSE
    ELSE In("root", obj) /\ isRouteNode(At(obj, "root"))

\* deserialize(json): the value returned, or a throw
deserialize(json) ==
    LET parsed == JsonParse(json)
    IN  IF parsed.threw THEN [threw |-> TRUE]
        ELSE IF ~isRouteTree(parsed.value) THEN [threw |-> TRUE]
        ELSE [threw |-> FALSE, value |-> parsed.value]

-----------------------------------------------------------------------------
(* Adapter protocol: define(adapter) and its walk, with the React adapter *)

affects(seg) == seg.type \in {"static", "dynamic", "catchAll", "optionalCatchAll"}

isRoot(seg) == seg.type = "static" /\ seg.raw = <<>>

\* an optional value: <<>> for undefined, <<v>> for v
Undefined == <<>>

Defined(v) == <<v>>

\* get(node, key): node.components[key]
get(node, key) ==
    IF key \in DOMAIN node.components THEN Defined(node.components[key]) ELSE Undefined

\* a string option is truthy when it is defined and not empty
Truthy(option) == option # Undefined /\ option[1] # ""

\* the React adapter's format
format(seg) ==
    CASE seg.type = "static" -> seg.raw
      [] seg.type = "dynamic" -> <<":">> \o NameText(seg)
      [] seg.type \in {"catchAll", "optionalCatchAll"} -> <<"*">>
      [] OTHER -> <<>>

pattern(segs) ==
    LET affecting == SelectSeq(segs, affects)
    IN  <<"/">> \o Join([i \in 1..Len(affecting) |-> format(affecting[i])], <<"/">>)

\* a context that leaves the layout stack out
context_noLayouts(node, segs, layouts, middlewares) ==
    [node |-> node, segments |-> segs, pattern |-> pattern(segs),
     layouts |-> <<>>, middlewares |-> middlewares]

context(node, segs, layouts, middlewares) ==
    [node |-> node, segments |-> segs, pattern |-> pattern(segs),
     layouts |-> layouts, middlewares |-> middlewares]

\* the React adapter's default handle
defaults(ctx) ==
    [routing |->
        [pattern |-> ctx.pattern, segment |-> ctx.node.segment,
         layouts |-> ctx.layouts, middlewares |-> ctx.middlewares,
         components |-> ctx.node.components,
         middleware |-> IF HasMiddleware(ctx.node) THEN Defined(ctx.node.middleware)
                        ELSE Undefined]]

\* the React adapter's resolve, with the default options: element and
\* component are the file path itself
resolve(node, ctx) ==
    LET layout == get(node, "layout")
        page == get(node, "page")
        data(file) == [element |-> file, component |-> file]
    IN  [layout |-> IF Truthy(layout) THEN Defined(data(layout[1])) ELSE Undefined,
         page |-> IF Truthy(page) THEN Defined(data(page[1])) ELSE Undefined,
         meta |-> defaults(ctx)]

\* the React adapter's create
create(routePath, index, data, children) ==
    LET d == IF data.layout # Undefined THEN data.layout ELSE data.page
        element == IF d # Undefined THEN Defined(d[1].element) ELSE Undefined
        component == IF d # Undefined THEN Defined(d[1].component) ELSE Undefined
    IN  IF index
        THEN [index |-> TRUE, element |-> element, Component |-> component,
              handle |-> data.meta]
        ELSE [path |-> routePath, element |-> element, Component |-> component,
              children |-> IF Len(children) > 0 THEN Defined(children) ELSE Undefined,
              handle |-> data.meta]

\* history of the adapter calls: resolve(node, options, ctx) for the node at
\* an address, and create(...) for it with the route it returned
Resolved(addr, ctx) == [op |-> "resolve", addr |-> addr, ctx |-> ctx]

Created(addr, routePath, index, data, children, made) ==
    [op |-> "create", addr |-> addr, path |-> routePath, index |-> index, data |-> data,
     children |-> children, route |-> made]

IndexData_keepLayout(resolved) == resolved

\* { ...resolved, layout: undefined }
IndexData(resolved) == [resolved EXCEPT !.layout = Undefined]

\* { ...resolved, page: undefined }
LayoutData(resolved) == [resolved EXCEPT !.page = Undefined]

Gathered_slotsFirst(fromChildren, fromSlots, fromIntercepts) ==
    fromSlots \o fromChildren \o fromIntercepts

\* the routes pushed into children by the three loops, in loop order
Gathered(fromChildren, fromSlots, fromIntercepts) ==
    fromChildren \o fromSlots \o fromIntercepts

\* walk returns the routes; calls is the history of the adapter calls made
RECURSIVE walk(_, _, _, _, _)
walk(node, segs, layouts, middlewares, addr) ==
    LET segChain == Append(segs, node.segment)
        layout == get(node, "layout")
        nextLayouts == IF Truthy(layout) THEN Append(layouts, layout[1]) ELSE layouts
        nextMw ==
            IF HasMiddleware(node) /\ node.middleware # ""
            THEN Append(middlewares, node.middleware)
            ELSE middlewares
        Below(child, step) == walk(child, segChain, nextLayouts, nextMw, Append(addr, step))
        ofChildren ==
            [i \in 1..Len(node.children) |-> Below(node.children[i], <<"children", i>>)]
        ofSlots ==
            IF HasSlots(node)
            THEN [i \in 1..Len(node.slots) |-> Below(node.slots[i].node, <<"slots", i>>)]
            ELSE <<>>
        ofIntercepts ==
            IF HasIntercepts(node)
            THEN [i \in 1..Len(node.intercepts) |->
                     Below(node.intercepts[i], <<"intercepts", i>>)]
            ELSE <<>>
        children ==
            Gathered(Flatten([i \in 1..Len(ofChildren) |-> ofChildren[i].routes]),
                     Flatten([i \in 1..Len(ofSlots) |-> ofSlots[i].routes]),
                     Flatten([i \in 1..Len(ofIntercepts) |-> ofIntercepts[i].routes]))
        before ==
            Flatten([i \in 1..Len(ofChildren) |-> ofChildren[i].calls])
            \o Flatten([i \in 1..Len(ofSlots) |-> ofSlots[i].calls])
            \o Flatten([i \in 1..Len(ofIntercepts) |-> ofIntercepts[i].calls])
        dynamic == affects(node.segment) /\ ~isRoot(node.segment)
        slug == IF dynamic THEN format(node.segment) ELSE <<>>
        root == isRoot(node.segment)
        ctx == context(node, segChain, nextLayouts, nextMw)
        resolved == resolve(node, ctx)
        routePath == IF root THEN <<"/">> ELSE slug
        indexData == IndexData(resolved)
        idx ==
            IF resolved.page # Undefined
            THEN <<create(<<>>, TRUE, indexData, <<>>)>>
            ELSE <<>>
        layoutData == LayoutData(resolved)
        wrapper == create(routePath, FALSE, layoutData, idx \o children)
        single == create(routePath, FALSE, resolved, children)
        called == before \o <<Resolved(addr, ctx)>>
    IN  IF ~dynamic /\ ~root THEN [routes |-> children, calls |-> called]
        ELSE IF resolved.layout # Undefined
        THEN [routes |-> <<wrapper>>,
              calls |-> called
                        \o [i \in 1..Len(idx) |->
                               Created(addr, <<>>, TRUE, indexData, <<>>, idx[i])]
                        \o <<Created(addr, routePath, FALSE, layoutData, idx \o children,
                                      wrapper)>>]
        ELSE IF resolved.page # Undefined \/ Len(children) > 0
        THEN [routes |-> <<single>>,
              calls |-> called
                        \o <<Created(addr, routePath, FALSE, resolved, children, single)>>]
        ELSE [routes |-> <<>>, calls |-> called]

\* adapt(tree): the tree is only read; every array the walk extends is its own
adapt(t) == walk(t.root, <<>>, <<>>, <<>>, <<>>).routes

adaptTrace(t) == walk(t.root, <<>>, <<>>, <<>>, <<>>).calls

-----------------------------------------------------------------------------
(* SpecTree, continued: the other operations that take the tree *)

\* validator.validate(tree)
Validate ==
    /\ pc = "ready"
    /\ tree # <<>>
    /\ output' = <<validate(tree)>>
    /\ trace' = validateTrace(tree)
    /\ pc' = "validated"
    /\ UNCHANGED <<orbitVars, nodes, tree, parserVars, routeVars, cacheVars>>

\* collector.collect(tree)
Collect ==
    /\ pc = "ready"
    /\ tree # <<>>
    /\ output' = <<collect(tree)>>
    /\ pc' = "collected"
    /\ UNCHANGED <<orbitVars, nodes, tree, trace, parserVars, routeVars, cacheVars>>

\* serialize(tree)
Serialize ==
    /\ pc = "ready"
    /\ tree # <<>>
    /\ output' = <<serialize(tree)>>
    /\ pc' = "serialized"
    /\ UNCHANGED <<orbitVars, nodes, tree, trace, parserVars, routeVars, cacheVars>>

\* adapt(tree)
Adapt ==
    /\ pc = "ready"
    /\ tree # <<>>
    /\ output' = <<adapt(tree)>>
    /\ trace' = adaptTrace(tree)
    /\ pc' = "adapted"
    /\ UNCHANGED <<orbitVars, nodes, tree, parserVars, routeVars, cacheVars>>

NextTree == Sort \/ Arrange \/ Validate \/ Collect \/ Serialize \/ Adapt

SpecTree == InitTree /\ [][NextTree]_vars

\* the children list of every node of the subtree, the nodes under its slots
\* and intercepts included, is in sorted sibling order
RECURSIVE SortedEverywhere(_)
SortedEverywhere(node) ==
    /\ SiblingOrder(node.children)
    /\ \A i \in 1..Len(node.children) : SortedEverywhere(node.children[i])
    /\ HasSlots(node) =>
           \A i \in 1..Len(node.slots) : SortedEverywhere(node.slots[i].node)
    /\ HasIntercepts(node) =>
           \A i \in 1..Len(node.intercepts) : SortedEverywhere(node.intercepts[i])

Bijections(n) == {f \in [1..n -> 1..n] : \A i, j \in 1..n : f[i] = f[j] => i = j}

\* b is a with nothing changed but the order of children lists
RECURSIVE SameNodes(_, _)
SameNodes(a, b) ==
    /\ DOMAIN a = DOMAIN b
    /\ a.segment = b.segment
    /\ a.components = b.components
    /\ HasMiddleware(a) => a.middleware = b.middleware
    /\ Len(a.children) = Len(b.children)
    /\ \E f \in Bijections(Len(a.children)) :
           \A i \in 1..Len(a.children) : SameNodes(a.children[f[i]], b.children[i])
    /\ HasSlots(a) =>
           /\ Len(a.slots) = Len(b.slots)
           /\ \A i \in 1..Len(a.slots) :
                  /\ a.slots[i].name = b.slots[i].name
                  /\ SameNodes(a.slots[i].node, b.slots[i].node)
    /\ HasIntercepts(a) =>
           /\ Len(a.intercepts) = Len(b.intercepts)
           /\ \A i \in 1..Len(a.intercepts) : SameNodes(a.intercepts[i], b.intercepts[i])

\* C9: whole-tree sort.  In the tree returned by arrange the children list of
\* every node, at every depth and inside every slots entry and every
\* intercepts entry, is in sorted sibling order; the returned tree has the
\* same nodes as the input, each with its segment, components and middleware
\* unchanged, the same slot names, and the intercepts in their input order.
ArrangeSorted ==
    pc = "arranged" =>
        /\ SortedEverywhere(output[1])
        /\ SameNodes(tree.root, output[1])

\* some node of the subtree has children that are not in sorted order
RECURSIVE UnsortedBelow(_)
UnsortedBelow(node) ==
    \/ ~SiblingOrder(node.children)
    \/ \E i \in 1..Len(node.children) : UnsortedBelow(node.children[i])

\* arrange has sorted children at the root, two levels down, under a slot and
\* under an intercept, and has kept two intercepts in their unsorted order
ArrangeSortedWitness ==
    /\ pc = "arranged"
    /\ ~SiblingOrder(tree.root.children)
    /\ \E i \in 1..Len(tree.root.children) : UnsortedBelow(tree.root.children[i])
    /\ HasSlots(tree.root)
    /\ \E i \in 1..Len(tree.root.slots) : UnsortedBelow(tree.root.slots[i].node)
    /\ HasIntercepts(tree.root)
    /\ Len(tree.root.intercepts) = 2
    /\ ~SiblingOrder(tree.root.intercepts)
    /\ \E i \in 1..2 : UnsortedBelow(tree.root.intercepts[i])
    /\ \E i \in 1..Len(tree.root.children) :
           \E j \in 1..Len(tree.root.children[i].children) :
               HasMiddleware(tree.root.children[i].children[j])

\* C10: no operation mutates its input.  After sort, arrange, validate,
\* collect, serialize or adapt returns, the array or tree it was handed
\* (every node, its children order, slots, intercepts, components) is what it
\* was before the call.
InputUntouched == [][nodes' = nodes /\ tree' = tree]_vars

\* arrange has returned a tree in another order than the one it was handed,
\* which still has unsorted children, a slot and an intercept
InputUntouchedWitness ==
    /\ pc = "arranged"
    /\ output[1] # tree.root
    /\ ~SiblingOrder(tree.root.children)
    /\ HasSlots(tree.root)
    /\ HasIntercepts(tree.root)
    /\ nodes = tree.root.children

-----------------------------------------------------------------------------
(* SpecValidate: one call of validate on an arbitrary route tree *)

\* longest list of conflicting siblings in a generated tree
MaxKids == 4

PageB == Leaf(<<"b">>, [page |-> "b/page.tsx"])

PageY == Leaf(<<"[", "y", "]">>, [page |-> "y/page.tsx"])

PageW == Leaf(<<"[", "[", ".", ".", ".", "w", "]", "]">>, [page |-> "w/page.tsx"])

\* a directory with nothing in it
EmptyC == Leaf(<<"c">>, NoComponents)

ConflictKids == {PageA, PageB, PageX, PageY, PageZ, PageW}

RootOf(kids) == Node(Seg(<<>>), [layout |-> "layout.tsx"], kids)

\* trees whose root has any list of siblings of the four URL types
ConflictTrees == {[root |-> RootOf(kids)] : kids \in SeqsUpTo(ConflictKids, MaxKids)}

\* trees with the same sibling lists one level down: under a folder, under a
\* slot and under an intercept of the root
DeepTrees ==
    {[root |->
         WithIntercepts(
             WithSlots(RootOf(<<Node(Seg(<<"f">>), NoComponents, kids)>>),
                       <<Slot("m", NoComponents, kids)>>),
             <<Node(Seg(<<"(", ".", ")", "a">>), [page |-> "ia/page.tsx"], kids)>>)] :
        kids \in SeqsUpTo(ConflictKids, 2)}

\* subtrees that own a page or not: directly, below, under a slot, under an
\* intercept
Bare ==
    {Node(Seg(<<"o">>), comps, kids) :
        comps \in {NoComponents, [page |-> "o/page.tsx"], [default |-> "o/default.tsx"],
                   [layout |-> "o/layout.tsx"]},
        kids \in {<<>>, <<EmptyC>>, <<PageA>>, <<Node(Seg(<<"d">>), NoComponents, <<PageA>>)>>}}

Owners ==
    LET slotted == Bare \cup {WithSlots(n, <<Slot("m", comps, kids)>>) :
                                 n \in Bare,
                                 comps \in {NoComponents, [default |-> "m/default.tsx"]},
                                 kids \in {<<>>, <<PageA>>}}
    IN  slotted \cup {WithIntercepts(n, <<i>>) : n \in slotted, i \in {InterceptA}}

\* trees with a middleware on a node of each of these kinds
MiddlewareTrees ==
    {[root |-> RootOf(<<WithMiddleware(n, "o/middleware.ts")>>)] : n \in Owners}

Kinds ==
    Bare \cup {WithSlots(Node(Seg(<<"o">>), NoComponents, <<>>),
                         <<Slot("m", NoComponents, <<PageA>>)>>),
               WithIntercepts(Node(Seg(<<"o">>), NoComponents, <<>>), <<InterceptA>>)}

\* trees with a slot and an intercept of each of these kinds
StructureTrees ==
    {[root |-> WithIntercepts(WithSlots(RootOf(<<>>),
                                        <<[name |-> <<"m">>,
                                           node |-> [n EXCEPT !.segment = Seg(<<"@", "m">>)]]>>),
                              <<[k EXCEPT !.segment = Seg(<<"(", ".", ")", "o">>)]>>)] :
        n \in Kinds, k \in Kinds}

\* trees whose root has a middleware and no page below it, over a folder, a
\* slot and an intercept that have findings of their own
OrderTrees ==
    {[root |->
         WithMiddleware(
             WithIntercepts(
                 WithSlots(RootOf(<<Node(Seg(<<"f">>), NoComponents, kids)>>),
                           <<Slot("m", NoComponents, kids)>>),
                 <<Node(Seg(<<"(", ".", ")", "a">>), comps, under)>>),
             "middleware.ts")] :
        kids \in {<<>>, <<EmptyC, EmptyC>>},
        comps \in {NoComponents, [page |-> "ia/page.tsx"]},
        under \in {<<>>, <<PageX, PageY>>}}

ValidatorTrees ==
    Trees \cup ConflictTrees \cup DeepTrees \cup MiddlewareTrees \cup StructureTrees
    \cup OrderTrees

InitValidate ==
    /\ pc = "ready"
    /\ tree \in ValidatorTrees
    /\ nodes = tree.root.children
    /\ output = <<>>
    /\ trace = <<>>
    /\ IdleParser /\ IdleRoute /\ IdleCache /\ IdleOrbit

NextValidate == Validate

SpecValidate == InitValidate /\ [][NextValidate]_vars

\* the addresses of the nodes of a subtree, reached through children, slots
\* and intercepts
RECURSIVE Addresses(_, _)
Addresses(node, addr) ==
    {addr}
    \cup UNION {Addresses(node.children[i], Append(addr, <<"children", i>>)) :
                   i \in 1..Len(node.children)}
    \cup (IF HasSlots(node)
          THEN UNION {Addresses(node.slots[i].node, Append(addr, <<"slots", i>>)) :
                         i \in 1..Len(node.slots)}
          ELSE {})
    \cup (IF HasIntercepts(node)
          THEN UNION {Addresses(node.intercepts[i], Append(addr, <<"intercepts", i>>)) :
                         i \in 1..Len(node.intercepts)}
          ELSE {})

\* C11: validator findings are data.  For every route tree validate returns
\* a result, having visited every node reachable through children, slots and
\* intercepts exactly once, and valid is true if and only if errors is empty.
ValidatorTotal ==
    pc = "validated" =>
        /\ DOMAIN output[1] = {"valid", "errors"}
        /\ output[1].valid \in BOOLEAN
        /\ output[1].valid <=> (output[1].errors = <<>>)
        /\ {trace.visited[i] : i \in 1..Len(trace.visited)} = Addresses(tree.root, <<>>)
        /\ \A i, j \in 1..Len(trace.visited) : trace.visited[i] = trace.visited[j] => i = j

\* validate has returned errors for a tree with nodes two levels down, under
\* a slot and under an intercept
ValidatorTotalWitness ==
    /\ pc = "validated"
    /\ ~output[1].valid
    /\ Len(output[1].errors) >= 2
    /\ HasSlots(tree.root) /\ HasIntercepts(tree.root)
    /\ \E i \in 1..Len(tree.root.intercepts) : tree.root.intercepts[i].children # <<>>
    /\ \E i \in 1..Len(tree.root.children) : tree.root.children[i].children # <<>>
    /\ Len(trace.visited) >= 8

\* the node at an address of the tree
RECURSIVE NodeAt(_, _)
NodeAt(node, addr) ==
    IF addr = <<>> THEN node
    ELSE LET step == Head(addr)
             next == CASE step[1] = "children" -> node.children[step[2]]
                       [] step[1] = "slots" -> node.slots[step[2]].node
                       [] step[1] = "intercepts" -> node.intercepts[step[2]]
         IN  NodeAt(next, Tail(addr))

\* how many errors of a type the validateNode call of a node has pushed
ReportedAt(addr, type) ==
    Cardinality({i \in 1..Len(output[1].errors) :
                    trace.owners[i] = addr /\ output[1].errors[i].type = type})

ChildrenOfType(node, types) ==
    {i \in 1..Len(node.children) : node.children[i].segment.type \in types}

SharedStaticName(node) ==
    \E i, j \in ChildrenOfType(node, {"static"}) :
        i # j /\ node.children[i].segment.raw = node.children[j].segment.raw

Once(condition) == IF condition THEN 1 ELSE 0

\* C12: sibling conflict detection.  For every node of the tree, validate
\* reports at that node exactly one DUPLICATE_STATIC error if two or more
\* static children share a raw name and none otherwise, exactly one
\* MULTIPLE_DYNAMIC error iff it has two or more dynamic children, exactly one
\* DYNAMIC_CATCH_CONFLICT error iff it has a dynamic child and a catchAll or
\* optionalCatchAll child, and exactly one MULTIPLE_CATCH_ALL error iff it has
\* two or more catchAll and optionalCatchAll children together.
SiblingConflicts ==
    pc = "validated" =>
        \A addr \in Addresses(tree.root, <<>>) :
            LET node == NodeAt(tree.root, addr)
                dynamic == ChildrenOfType(node, {"dynamic"})
                catchers == ChildrenOfType(node, {"catchAll", "optionalCatchAll"})
            IN  /\ ReportedAt(addr, "DUPLICATE_STATIC") = Once(SharedStaticName(node))
                /\ ReportedAt(addr, "MULTIPLE_DYNAMIC") = Once(Cardinality(dynamic) >= 2)
                /\ ReportedAt(addr, "DYNAMIC_CATCH_CONFLICT")
                       = Once(dynamic # {} /\ catchers # {})
                /\ ReportedAt(addr, "MULTIPLE_CATCH_ALL") = Once(Cardinality(catchers) >= 2)

\* validate has reported one duplicate error for a root with two duplicated
\* names
SiblingConflictsWitness ==
    /\ pc = "validated"
    /\ Len(tree.root.children) = 4
    /\ \E i, j \in 1..4 :
           /\ tree.root.children[i].segment.raw # tree.root.children[j].segment.raw
           /\ \E k \in 1..4 : k # i /\ tree.root.children[k] = tree.root.children[i]
           /\ \E k \in 1..4 : k # j /\ tree.root.children[k] = tree.root.children[j]
           /\ tree.root.children[i].segment.type = "static"
           /\ tree.root.children[j].segment.type = "static"
    /\ ReportedAt(<<>>, "DUPLICATE_STATIC") = 1

\* the node or one of its descendants, through children and slots, owns a page
RECURSIVE OwnsPageWithin(_)
OwnsPageWithin(node) ==
    \/ "page" \in DOMAIN node.components
    \/ \E i \in 1..Len(node.children) : OwnsPageWithin(node.children[i])
    \/ HasSlots(node) /\ \E i \in 1..Len(node.slots) : OwnsPageWithin(node.slots[i].node)

\* C13: orphan middleware.  validate reports an ORPHAN_MIDDLEWARE error for a
\* node if and only if the node declares middleware and neither the node nor
\* any of its descendants, slots included, owns a page component.
OrphanMiddleware ==
    pc = "validated" =>
        \A addr \in Addresses(tree.root, <<>>) :
            LET node == NodeAt(tree.root, addr)
            IN  ReportedAt(addr, "ORPHAN_MIDDLEWARE")
                    = Once(HasMiddleware(node) /\ ~OwnsPageWithin(node))

\* validate has accepted a middleware whose only page is under a slot of a
\* child-less node
OrphanMiddlewareWitness ==
    /\ pc = "validated"
    /\ \E addr \in Addresses(tree.root, <<>>) :
           LET node == NodeAt(tree.root, addr)
           IN  /\ HasMiddleware(node)
               /\ "page" \notin DOMAIN node.components
               /\ node.children = <<>>
               /\ HasSlots(node)
               /\ OwnsPageWithin(node)
               /\ ReportedAt(addr, "ORPHAN_MIDDLEWARE") = 0

\* how many errors of a type, about a segment, the validateNode call of a node
\* has pushed
ReportedAbout(addr, type, seg) ==
    Cardinality({i \in 1..Len(output[1].errors) :
                    /\ trace.owners[i] = addr
                    /\ output[1].errors[i].type = type
                    /\ output[1].errors[i].segments = <<seg>>})

\* a descendant of the node, through children and slots, owns a page
DescendantOwnsPage(node) ==
    \/ \E i \in 1..Len(node.children) : OwnsPageWithin(node.children[i])
    \/ HasSlots(node) /\ \E i \in 1..Len(node.slots) : OwnsPageWithin(node.slots[i].node)

BadSlot(slotNode) ==
    /\ "page" \notin DOMAIN slotNode.components
    /\ "default" \notin DOMAIN slotNode.components
    /\ ~DescendantOwnsPage(slotNode)

BadIntercept(interceptNode) == "page" \notin DOMAIN interceptNode.components

\* C14: slot and intercept structure.  validate reports
\* INVALID_SLOT_STRUCTURE for a slot if and only if the slot node owns neither
\* a page nor a default component and no descendant of it owns a page; it
\* reports INVALID_INTERCEPT_STRUCTURE for an intercept node if and only if
\* that node itself owns no page component, whatever its descendants own.
StructureErrors ==
    pc = "validated" =>
        \A addr \in Addresses(tree.root, <<>>) :
            LET node == NodeAt(tree.root, addr)
                slots == IF HasSlots(node) THEN node.slots ELSE <<>>
                intercepts == IF HasIntercepts(node) THEN node.intercepts ELSE <<>>
                badSlots == {i \in 1..Len(slots) : BadSlot(slots[i].node)}
                badIntercepts == {i \in 1..Len(intercepts) : BadIntercept(intercepts[i])}
            IN  /\ ReportedAt(addr, "INVALID_SLOT_STRUCTURE") = Cardinality(badSlots)
                /\ \A i \in 1..Len(slots) :
                       ReportedAbout(addr, "INVALID_SLOT_STRUCTURE", slots[i].node.segment)
                           = Cardinality({j \in badSlots :
                                             slots[j].node.segment = slots[i].node.segment})
                /\ ReportedAt(addr, "INVALID_INTERCEPT_STRUCTURE")
                       = Cardinality(badIntercepts)
                /\ \A i \in 1..Len(intercepts) :
                       ReportedAbout(addr, "INVALID_INTERCEPT_STRUCTURE",
                                     intercepts[i].segment)
                           = Cardinality({j \in badIntercepts :
                                             intercepts[j].segment = intercepts[i].segment})

\* validate has accepted a slot that owns a default component only and has
\* no page below it, and has rejected an intercept that has a page below it
\* but none of its own
StructureErrorsWitness ==
    /\ pc = "validated"
    /\ HasSlots(tree.root) /\ HasIntercepts(tree.root)
    /\ LET slotNode == tree.root.slots[1].node
           interceptNode == tree.root.intercepts[1]
       IN  /\ DOMAIN slotNode.components = {"default"}
           /\ ~DescendantOwnsPage(slotNode)
           /\ ReportedAbout(<<>>, "INVALID_SLOT_STRUCTURE", slotNode.segment) = 0
           /\ BadIntercept(interceptNode)
           /\ DescendantOwnsPage(interceptNode)
           /\ ReportedAbout(<<>>, "INVALID_INTERCEPT_STRUCTURE", interceptNode.segment) = 1

-----------------------------------------------------------------------------
(* SpecCollect: one call of collect on an arbitrary route tree *)

PageSlug == Leaf(<<"[", "s", "]">>, [page |-> "s/page.tsx"])

LayoutY == Leaf(<<"[", "y", "]">>, [layout |-> "y/layout.tsx"])

\* the folders a chain passes through: static, dynamic, catch-all, optional
\* catch-all and group, with a page of their own or not
Folders ==
    {Node(Seg(r), comps, kids) :
        r \in {<<"f">>, <<"[", "c", "]">>, <<"[", ".", ".", ".", "r", "]">>,
               <<"[", "[", ".", ".", ".", "o", "]", "]">>, <<"(", "g", ")">>},
        comps \in {NoComponents, [page |-> "f/page.tsx"]},
        kids \in SeqsUpTo({PageA, PageSlug, LayoutY}, MaxChildren)}

\* a folder alone, with a slot, with an intercept, and one level further down
ChainTrees ==
    {[root |-> RootOf(<<f>>)] : f \in Folders}
    \cup {[root |-> RootOf(<<WithSlots(f, <<Slot("m", comps, <<PageSlug, PageA>>)>>)>>)] :
             f \in Folders, comps \in {NoComponents, [page |-> "m/page.tsx"]}}
    \cup {[root |-> RootOf(<<WithIntercepts(
                                  WithSlots(f, <<Slot("k", NoComponents, <<PageSlug>>)>>),
                                  <<InterceptA>>)>>)] : f \in Folders}
    \cup {[root |-> RootOf(<<Node(Seg(<<"[", "t", "]">>), NoComponents, <<f>>)>>)] :
             f \in Folders}

CollectorTrees == Trees \cup DeepTrees \cup ChainTrees

InitCollect ==
    /\ pc = "ready"
    /\ tree \in CollectorTrees
    /\ nodes = tree.root.children
    /\ output = <<>>
    /\ trace = <<>>
    /\ IdleParser /\ IdleRoute /\ IdleCache /\ IdleOrbit

NextCollect == Collect

SpecCollect == InitCollect /\ [][NextCollect]_vars

\* the segments from a node down to the node at an address below it
RECURSIVE ChainTo(_, _)
ChainTo(node, addr) ==
    IF addr = <<>> THEN <<node.segment>>
    ELSE <<node.segment>> \o ChainTo(NodeAt(node, <<Head(addr)>>), Tail(addr))

\* the node at the address is reached without entering an intercepts list
OutsideIntercepts(addr) == \A i \in 1..Len(addr) : addr[i][1] # "intercepts"

\* the dynamic, catch-all and optional catch-all segments of a chain
DynamicFamily(segments) ==
    SelectSeq(segments, LAMBDA s : s.type \in {"dynamic", "catchAll", "optionalCatchAll"})

\* the node at the address owns a page and has a dynamic-family segment on
\* its chain
PageOnDynamicChain(addr) ==
    /\ "page" \in DOMAIN NodeAt(tree.root, addr).components
    /\ DynamicFamily(ChainTo(tree.root, addr)) # <<>>

\* the nodes collect has to emit a route for
Collectable ==
    {addr \in Addresses(tree.root, <<>>) : OutsideIntercepts(addr) /\ PageOnDynamicChain(addr)}

\* the route data the claim fixes for the node at an address
ExpectedRoute(addr) ==
    LET named == DynamicFamily(ChainTo(tree.root, addr))
    IN  [paramNames |-> [i \in 1..Len(named) |-> named[i].name],
         component |-> NodeAt(tree.root, addr).components.page]

EmittedRoute(r) == [paramNames |-> r.paramNames, component |-> r.component]

\* C15: static collection.  collect emits exactly one route for each node
\* that owns a page, has a dynamic, catch-all or optional catch-all segment
\* on its chain and is reached through children and slots only, and nothing
\* for a node inside an intercepts subtree; paramNames are the names of the
\* chain's dynamic-family segments from the root down and component is the
\* node's page path.
StaticCollection ==
    pc = "collected" =>
        LET routes == output[1]
            wanted == {ExpectedRoute(a) : a \in Collectable}
            emitted == {EmittedRoute(routes[i]) : i \in 1..Len(routes)}
        IN  /\ \A i \in 1..Len(routes) : DOMAIN routes[i] = {"pattern", "paramNames", "component"}
            /\ Len(routes) = Cardinality(Collectable)
            /\ \A v \in wanted \cup emitted :
                  Cardinality({i \in 1..Len(routes) : EmittedRoute(routes[i]) = v})
                      = Cardinality({a \in Collectable : ExpectedRoute(a) = v})

\* collect has emitted a route with two parameter names and a route for a
\* page under a slot, for a tree that also has a page on a dynamic chain
\* inside an intercepts subtree
StaticCollectionWitness ==
    /\ pc = "collected"
    /\ \E i \in 1..Len(output[1]) : Len(output[1][i].paramNames) = 2
    /\ \E a \in Collectable : \E i \in 1..Len(a) : a[i][1] = "slots"
    /\ \E a \in Addresses(tree.root, <<>>) : ~OutsideIntercepts(a) /\ PageOnDynamicChain(a)

\* the pattern the claim fixes for the node at an address: '/' and the
\* '/'-joined tokens of the URL-affecting segments below the root
ExpectedPattern(addr) ==
    LET url == UrlSegments(Tail(ChainTo(tree.root, addr)))
    IN  <<"/">> \o Join([i \in 1..Len(url) |-> TokenOf(url[i])], <<"/">>)

HasDoubleSlash(s) == \E i \in 1..(Len(s) - 1) : s[i] = "/" /\ s[i + 1] = "/"

\* C16: pattern of a collected route.  For a tree whose root segment is
\* static with empty raw, the pattern collect emits for a node is one leading
\* '/' followed by the '/'-joined tokens of the URL-affecting segments below
\* the root; the root adds no token, so no emitted pattern contains '//'.
CollectedPattern ==
    (/\ pc = "collected"
     /\ tree.root.segment.type = "static"
     /\ tree.root.segment.raw = <<>>) =>
        \A i \in 1..Len(output[1]) :
            /\ ~HasDoubleSlash(output[1][i].pattern)
            /\ \E a \in Collectable :
                  /\ ExpectedRoute(a) = EmittedRoute(output[1][i])
                  /\ ExpectedPattern(a) = output[1][i].pattern

-----------------------------------------------------------------------------
(* SpecGenerate: build a route from a chain, then generatePath with an     *)
(* arbitrary params object and arbitrary options                           *)

\* segments whose parameter names are "i" and "id": one name is the start of
\* the other
MaxTokens == 2

GenerateSegments ==
    {parse(r) : r \in {
        <<"a">>, <<"[", "i", "]">>, <<"[", "i", "d", "]">>,
        <<"[", ".", ".", ".", "i", "]">>, <<"[", "[", ".", ".", ".", "i", "d", "]", "]">> }}

GenerateNames == {<<"i">>, <<"i", "d">>}

\* strings, one of them holding a colon, and arrays, the empty one included
GenerateValues ==
    {Scalar(<<"u">>), Scalar(<<"u", ":", "v">>)}
    \cup {Array(<<>>), Array(<<<<"u">>>>), Array(<<<<"u">>, <<"v">>>>)}

\* the params objects over the names, in every key order
GenerateEntries ==
    {<<>>}
    \cup {<<[name |-> n, value |-> v]>> : n \in GenerateNames, v \in GenerateValues}
    \cup {e \in {<<[name |-> n, value |-> v], [name |-> m, value |-> w]>> :
                     n \in GenerateNames, m \in GenerateNames,
                     v \in GenerateValues, w \in GenerateValues} :
             e[1].name # e[2].name}

GenerateOptions == {NoOptions, [throwOnMissing |-> TRUE], [throwOnMissing |-> FALSE]}

InitGenerate ==
    /\ pc = "ready"
    /\ chain \in SeqsUpTo(GenerateSegments, MaxTokens)
    /\ params \in GenerateEntries
    /\ options \in GenerateOptions
    /\ route = <<>> /\ path = <<>> /\ result = <<>>
    /\ IdleParser /\ IdleCache /\ IdleSorter /\ IdleOrbit

NextGenerate == Build \/ GeneratePath

SpecGenerate == InitGenerate /\ [][NextGenerate]_vars

\* the call is in strict mode: throwOnMissing is true or left out
Strict == "throwOnMissing" \notin DOMAIN options \/ options.throwOnMissing

Supplied(n) == \E i \in 1..Len(params) : params[i].name = n

EmptyArray(v) == v.isArray /\ v.items = <<>>

\* the text a supplied value stands for: arrays joined with '/'
TextOf(v) == IF v.isArray THEN Join(v.items, <<"/">>) ELSE v.items[1]

\* the parameter tokens of the pattern of the chain
TokenSegments == SelectSeq(UrlSegments(chain), LAMBDA s : s.type # "static")

\* what stands in the place of a segment's token after substitution: the
\* value of the parameter of that name, or the token itself when no value
\* (or an empty array) is supplied
Piece(s) ==
    IF s.type = "static" THEN s.raw
    ELSE IF Supplied(s.name) /\ ~EmptyArray(AsMap(params)[s.name])
         THEN TextOf(AsMap(params)[s.name])
         ELSE TokenOf(s)

Substituted ==
    LET url == UrlSegments(chain)
    IN  <<"/">> \o Join([i \in 1..Len(url) |-> Piece(url[i])], <<"/">>)

\* C17: generatePath failure modes.  In strict mode generatePath throws
\* exactly when a supplied value is an empty array or a parameter token of
\* the pattern has no supplied value, and otherwise returns the pattern with
\* every token substituted; in lenient mode it never throws, skips empty
\* arrays and returns the pattern with the unsupplied tokens left verbatim.
GenerateFailures ==
    pc \in {"threw", "generated"} =>
        IF Strict
        THEN /\ pc = "threw" <=>
                   \/ \E i \in 1..Len(params) : EmptyArray(params[i].value)
                   \/ \E i \in 1..Len(TokenSegments) : ~Supplied(TokenSegments[i].name)
             /\ pc = "generated" => path[1] = Substituted
        ELSE pc = "generated" /\ path[1] = Substituted

DistinctNames ==
    \A i, j \in 1..Len(TokenSegments) :
        TokenSegments[i].name = TokenSegments[j].name => i = j

\* params gives each parameter of the pattern a string or a non-empty array
AllSupplied ==
    \A i \in 1..Len(TokenSegments) :
        Supplied(TokenSegments[i].name) /\ ~EmptyArray(AsMap(params)[TokenSegments[i].name])

\* C18: generatePath substitution without prefix collisions.  For a pattern
\* with distinct parameter names and a params map giving a value to each of
\* them, in whatever key order, each token is replaced by the value of the
\* parameter of exactly that name (arrays joined with '/') and no token is
\* replaced in whole or in part by the value of another parameter, also when
\* one name is a prefix of another.
SubstitutionByName ==
    (pc = "generated" /\ DistinctNames /\ AllSupplied) => path[1] = Substituted

-----------------------------------------------------------------------------
(* SpecRoundTrip: serialize a route tree, then deserialize the text        *)

\* deserialize(json) for the text at hand; trace keeps the text
Deserialize ==
    /\ pc \in {"serialized", "received"}
    /\ LET d == deserialize(output[1])
       IN  IF d.threw
           THEN pc' = "rejected" /\ output' = <<>>
           ELSE pc' = "restored" /\ output' = <<d.value>>
    /\ trace' = <<output[1]>>
    /\ UNCHANGED <<orbitVars, nodes, tree, parserVars, routeVars, cacheVars>>

\* a directory name of each segment type
TypedRaws ==
    {<<"a">>, <<"[", "x", "]">>, <<"[", ".", ".", ".", "y", "]">>,
     <<"[", "[", ".", ".", ".", "z", "]", "]">>, <<"(", "g", ")">>, <<"@", "m">>,
     <<"(", ".", ")", "a">>, <<"(", ".", ".", ")", "(", ".", ".", ")", "p">>,
     <<"(", ".", ".", ".", ")", "r">>}

\* trees with a node of each segment type as a child, under a slot and as an
\* intercept of a node that has a middleware
TypedTrees ==
    {[root |-> RootOf(<<Leaf(r, [page |-> "t/page.tsx"])>>)] : r \in TypedRaws}
    \cup {[root |-> WithSlots(RootOf(<<PageA>>),
                              <<Slot("m", NoComponents, <<Leaf(r, [page |-> "t/page.tsx"])>>)>>)] :
             r \in TypedRaws}
    \cup {[root |-> RootOf(<<WithMiddleware(
                                 WithIntercepts(PageA, <<Leaf(r, [page |-> "t/page.tsx"])>>),
                                 "a/middleware.ts")>>)] : r \in TypedRaws}

SerializerTrees == Trees \cup TypedTrees

InitRoundTrip ==
    /\ pc = "ready"
    /\ tree \in SerializerTrees
    /\ nodes = tree.root.children
    /\ output = <<>>
    /\ trace = <<>>
    /\ IdleParser /\ IdleRoute /\ IdleCache /\ IdleOrbit

NextRoundTrip == Serialize \/ Deserialize

SpecRoundTrip == InitRoundTrip /\ [][NextRoundTrip]_vars

\* C19: serializer round trip.  For every valid route tree T, with slots,
\* intercepts, middleware and segments of every type carrying the name and
\* level the parser gives them, deserialize(serialize(T)) returns without
\* throwing a tree deep-equal to T.
SerializerRoundTrip ==
    /\ pc # "rejected"
    /\ pc = "restored" => output[1] = JsTree(tree)

-----------------------------------------------------------------------------
(* SpecDeserialize: deserialize an arbitrary text                          *)

\* values that are no node
Junk == {JsNull, JsString(<<"x">>), JsNumber(1), JsArray(<<>>), JsObject(<<>>)}

\* what a children property may hold: the last two are arrays of things that
\* are no nodes
ChildrenValues == Junk \cup {JsArray(<<JsNull>>), JsArray(<<JsObject(<<>>)>>)}

\* the properties a key adds to an object: none, or one for each value
PropsOf(key, values) == {<<>>} \cup {<<Prop(key, v)>> : v \in values}

NodeValues ==
    Junk \cup {JsObject(s \o c \o k) :
                  s \in PropsOf("segment", {JsNull, JsObject(<<>>)}),
                  c \in PropsOf("components", {JsObject(<<>>), JsString(<<"x">>)}),
                  k \in PropsOf("children", ChildrenValues)}

TreeValues ==
    Junk
    \cup {JsObject(<<Prop("foo", JsString(<<"b", "a", "r">>))>>)}
    \cup {JsObject(<<Prop("root", n)>>) : n \in NodeValues}
    \cup {JsObject(<<Prop("version", JsNumber(1)), Prop("root", n)>>) : n \in NodeValues}

\* the texts handed to deserialize: one that is no JSON, and the documents of
\* these values
Texts == {NotJson} \cup {[parsable |-> TRUE, document |-> v] : v \in TreeValues}

InitDeserialize ==
    /\ pc = "received"
    /\ output \in {<<t>> : t \in Texts}
    /\ tree = <<>> /\ nodes = <<>> /\ trace = <<>>
    /\ IdleParser /\ IdleRoute /\ IdleCache /\ IdleOrbit

NextDeserialize == Deserialize

SpecDeserialize == InitDeserialize /\ [][NextDeserialize]_vars

\* the values an object holds under a key
Field(v, k) == {v.props[i].value : i \in {j \in 1..Len(v.props) : v.props[j].key = k}}

\* an object with a root that is a non-null object having segment, components
\* and an array children
Shaped(v) ==
    /\ v.kind = "object"
    /\ \E r \in Field(v, "root") :
          /\ r.kind = "object"
          /\ Field(r, "segment") # {}
          /\ Field(r, "components") # {}
          /\ \E c \in Field(r, "children") : c.kind = "array"

\* C20: deserialize rejection.  deserialize throws if and only if the text
\* is not parsable or the decoded value is not an object with a root that is
\* a non-null object having segment, components and an array children; in
\* every other case it returns the decoded value, without checking the shape
\* of nested nodes.
DeserializeRejection ==
    pc \in {"restored", "rejected"} =>
        LET text == trace[1] IN
        /\ pc = "rejected" <=> (~text.parsable \/ ~Shaped(text.document))
        /\ pc = "restored" => output[1] = text.document

\* deserialize has returned a value whose root has a null segment and a
\* children array holding something that is no node
DeserializeRejectionWitness ==
    /\ pc = "restored"
    /\ \E r \in Field(output[1], "root") :
          /\ JsNull \in Field(r, "segment")
          /\ \E c \in Field(r, "children") : c.kind = "array" /\ c.items = <<JsNull>>

-----------------------------------------------------------------------------
(* SpecAdapt: one call of the React adapter's adapt on an arbitrary tree   *)

MaxRoutes == 2

\* a folder with a layout, a page and a child
FolderL ==
    Node(Seg(<<"l">>), [layout |-> "l/layout.tsx", page |-> "l/page.tsx"], <<PageX>>)

\* a group that owns a page, with a page below it
GroupP == Node(Seg(<<"(", "p", ")">>), [page |-> "p/page.tsx"], <<PageA>>)

\* a group with nothing in it
GroupE == Leaf(<<"(", "e", ")">>, NoComponents)

\* a folder with a middleware and a layout over a group inside a group
FolderM ==
    WithMiddleware(
        Node(Seg(<<"m">>), [layout |-> "m/layout.tsx"],
             <<Node(Seg(<<"(", "g", ")">>), [layout |-> "g/layout.tsx"], <<GroupP, PageZ>>)>>),
        "m/middleware.ts")

\* a folder with a slot and an intercept of its own
FolderN ==
    WithIntercepts(
        WithSlots(Node(Seg(<<"n">>), NoComponents, <<PageA>>),
                  <<Slot("k", [page |-> "k/page.tsx"], <<PageX>>)>>),
        <<InterceptA>>)

AdapterNodes == {PageA, PageX, PageZ, EmptyC, FolderL, GroupP, GroupE, FolderM, FolderN}

\* roots with and without a layout, a page, children, slots and intercepts
AdapterRoots ==
    LET plain == {Node(Seg(<<>>), comps, kids) :
                     comps \in {NoComponents, [page |-> "page.tsx"], [layout |-> "layout.tsx"],
                                [layout |-> "layout.tsx", page |-> "page.tsx"]},
                     kids \in SeqsUpTo(AdapterNodes, MaxRoutes)}
        slotted == plain \cup {WithSlots(n, s) :
                                  n \in plain,
                                  s \in {<<Slot("s", [page |-> "s/page.tsx"], <<PageX>>)>>,
                                         <<Slot("s", NoComponents, <<>>)>>}}
    IN  slotted \cup {WithIntercepts(n, <<InterceptA>>) : n \in slotted}

AdapterTrees == {[root |-> r] : r \in AdapterRoots}

InitAdapt ==
    /\ pc = "ready"
    /\ tree \in AdapterTrees
    /\ nodes = tree.root.children
    /\ output = <<>>
    /\ trace = <<>>
    /\ IdleParser /\ IdleRoute /\ IdleCache /\ IdleOrbit

NextAdapt == Adapt

SpecAdapt == InitAdapt /\ [][NextAdapt]_vars

\* C21: adapter output has one root.  For every route tree, also one whose
\* root owns no layout, no page and has no children, slots or intercepts,
\* adapt returns a list of exactly one top-level route, the one created for
\* the root with path '/'.
OneTopLevelRoute ==
    pc = "adapted" =>
        /\ Len(output[1]) = 1
        /\ "path" \in DOMAIN output[1][1]
        /\ output[1][1].path = <<"/">>
        /\ \E i \in 1..Len(trace) :
              /\ trace[i].op = "create" /\ trace[i].addr = <<>>
              /\ trace[i].route = output[1][1]

\* the create calls made for the node at an address, in call order
CreatesAt(addr) == SelectSeq(trace, LAMBDA e : e.op = "create" /\ e.addr = addr)

\* the node at the address has a segment of a URL-affecting type (the root,
\* a static segment, is one of them)
Creating(addr) == NodeAt(tree.root, addr).segment.type \in UrlTypes

\* the addresses directly below an address: children, then slots, then
\* intercepts, each in input order
StepsBelow(addr) ==
    LET node == NodeAt(tree.root, addr)
    IN  [i \in 1..Len(node.children) |-> Append(addr, <<"children", i>>)]
        \o (IF HasSlots(node)
            THEN [i \in 1..Len(node.slots) |-> Append(addr, <<"slots", i>>)]
            ELSE <<>>)
        \o (IF HasIntercepts(node)
            THEN [i \in 1..Len(node.intercepts) |-> Append(addr, <<"intercepts", i>>)]
            ELSE <<>>)

\* the routes that stand for the subtree at an address: the route of the
\* node's own last create call when its segment affects the URL, and the
\* routes standing for the subtrees below it otherwise
RECURSIVE EmittedBy(_)
EmittedBy(addr) ==
    IF Creating(addr)
    THEN LET made == CreatesAt(addr)
         IN  IF made = <<>> THEN <<>> ELSE <<made[Len(made)].route>>
    ELSE LET below == StepsBelow(addr)
         IN  Flatten([i \in 1..Len(below) |-> EmittedBy(below[i])])

\* the routes built from what is below the node at an address
BuiltBelow(addr) ==
    LET below == StepsBelow(addr)
    IN  Flatten([i \in 1..Len(below) |-> EmittedBy(below[i])])

FileOf(data) == IF data = <<>> THEN <<>> ELSE <<data[1].element>>

\* C22: layout wrapping in the adapter walk.  For a URL-affecting or root
\* node with a layout the walk creates exactly one route with the layout and
\* no page, whose children are one index route (index true, empty path, the
\* page and no layout, no children) if the node has a page, then the routes
\* built from the node's children; a node without layout creates one route
\* if it has a page or any built child, and nothing otherwise.
LayoutWrapping ==
    pc = "adapted" =>
        /\ output[1] = EmittedBy(<<>>)
        /\ \A addr \in Addresses(tree.root, <<>>) :
              Creating(addr) =>
                LET node == NodeAt(tree.root, addr)
                    made == CreatesAt(addr)
                    built == BuiltBelow(addr)
                    hasLayout == "layout" \in DOMAIN node.components
                    hasPage == "page" \in DOMAIN node.components
                    last == made[Len(made)]
                IN  IF hasLayout
                    THEN /\ Len(made) = (IF hasPage THEN 2 ELSE 1)
                         /\ ~last.index
                         /\ FileOf(last.data.layout) = <<node.components.layout>>
                         /\ last.data.page = <<>>
                         /\ last.children =
                               (IF hasPage THEN <<made[1].route>> ELSE <<>>) \o built
                         /\ hasPage =>
                               /\ made[1].index
                               /\ made[1].path = <<>>
                               /\ FileOf(made[1].data.page) = <<node.components.page>>
                               /\ made[1].data.layout = <<>>
                               /\ made[1].children = <<>>
                    ELSE IF hasPage \/ built # <<>>
                    THEN /\ Len(made) = 1
                         /\ ~last.index
                         /\ last.data.layout = <<>>
                         /\ FileOf(last.data.page) =
                               (IF hasPage THEN <<node.components.page>> ELSE <<>>)
                         /\ last.children = built
                    ELSE made = <<>>

\* adapt has walked a tree in which a folder below the root has a layout, a
\* page and a child, another node has a page and no layout, and an empty
\* folder creates nothing
LayoutWrappingWitness ==
    /\ pc = "adapted"
    /\ \E a \in Addresses(tree.root, <<>>) :
          /\ a # <<>> /\ Creating(a)
          /\ {"layout", "page"} \subseteq DOMAIN NodeAt(tree.root, a).components
          /\ Len(CreatesAt(a)) = 2
          /\ Len(CreatesAt(a)[2].children) = 2
    /\ \E a \in Addresses(tree.root, <<>>) :
          /\ Creating(a)
          /\ DOMAIN NodeAt(tree.root, a).components = {"page"}
          /\ Len(CreatesAt(a)) = 1
    /\ \E a \in Addresses(tree.root, <<>>) :
          Creating(a) /\ CreatesAt(a) = <<>> /\ a # <<>>

\* the nearest ancestor of an address whose segment affects the URL
NearestCreating(addr) ==
    LET ups == {k \in 0..(Len(addr) - 1) : Creating(SubSeq(addr, 1, k))}
    IN  SubSeq(addr, 1, Max(ups))

\* part occurs in whole as one run of consecutive elements
RunOf(part, whole) ==
    \E k \in 0..(Len(whole) - Len(part)) : SubSeq(whole, k + 1, k + Len(part)) = part

\* the routes standing for what is reached from the node through one of its
\* three properties
BuiltThrough(addr, property) ==
    LET below == SelectSeq(StepsBelow(addr), LAMBDA a : a[Len(a)][1] = property)
    IN  Flatten([i \in 1..Len(below) |-> EmittedBy(below[i])])

\* C23: pass-through of non-URL segments in the adapter walk.  A non-root
\* group, parallel or intercept node creates no route of its own, and the
\* routes built from its subtree appear unchanged in the child list of its
\* nearest URL-affecting ancestor; that list holds the routes from the
\* ancestor's children first, then from its slots, then from its
\* intercepts, each in input order.
PassThrough ==
    pc = "adapted" =>
        \A addr \in Addresses(tree.root, <<>>) :
            IF Creating(addr)
            THEN CreatesAt(addr) # <<>> =>
                    LET made == CreatesAt(addr)
                        listed == SelectSeq(made[Len(made)].children,
                                            LAMBDA r : "index" \notin DOMAIN r)
                    IN  listed = BuiltThrough(addr, "children")
                                 \o BuiltThrough(addr, "slots")
                                 \o BuiltThrough(addr, "intercepts")
            ELSE /\ CreatesAt(addr) = <<>>
                 /\ EmittedBy(addr) # <<>> =>
                       LET above == CreatesAt(NearestCreating(addr))
                       IN  /\ above # <<>>
                           /\ RunOf(EmittedBy(addr), above[Len(above)].children)

\* adapt has walked a tree whose root route lists routes from its children,
\* its slots and its intercepts, one of them the page under a group directly
\* below the root
PassThroughWitness ==
    /\ pc = "adapted"
    /\ BuiltThrough(<<>>, "children") # <<>>
    /\ BuiltThrough(<<>>, "slots") # <<>>
    /\ BuiltThrough(<<>>, "intercepts") # <<>>
    /\ \E i \in 1..Len(tree.root.children) :
          /\ tree.root.children[i].segment.type = "group"
          /\ \E j \in 1..Len(output[1][1].children[1]) :
                output[1][1].children[1][j].path = <<"a">>
          /\ EmittedBy(<<<<"children", i>>>>) # <<>>

\* C24: parent-intercept grammar.  parse classifies a name as
\* interceptParent only when the name is one or more '(..)' groups followed
\* by a word name, and the level is the number of groups; so every
\* interceptParent segment has level >= 1, a name holding a '(.)' group is
\* never interceptParent, and level 0 occurs only on interceptSame.
ParentInterceptGrammar ==
    pc = "parsed" =>
        LET s == segment[1] IN
        /\ s.type = "interceptParent" =>
              /\ \E k \in 1..Len(raw) : \E n \in WordsIn(raw) :
                    raw = Repeat(<<"(", ".", ".", ")">>, k) \o n /\ s.level = k /\ s.name = n
              /\ s.level >= 1
              /\ CountMatches(raw, <<"(", ".", ")">>) = 0
        /\ ("level" \in DOMAIN s /\ s.level = 0) => s.type = "interceptSame"

\* address a is a proper ancestor of address b
Above(a, b) == Len(a) < Len(b) /\ SubSeq(b, 1, Len(a)) = a

\* address a is b or an ancestor of b
AtOrAbove(a, b) == Len(a) <= Len(b) /\ SubSeq(b, 1, Len(a)) = a

SiblingCodes ==
    {"DUPLICATE_STATIC", "MULTIPLE_DYNAMIC", "DYNAMIC_CATCH_CONFLICT", "MULTIPLE_CATCH_ALL"}

\* C25: order of validator findings.  In the returned errors list every
\* error reported for a node itself (sibling conflicts among its children,
\* its slot and intercept structure errors, its orphan-middleware error)
\* comes before every error reported for a node in its subtree.
FindingsOrder ==
    pc = "validated" =>
        \A i, j \in 1..Len(output[1].errors) :
            Above(trace.owners[i], trace.owners[j]) => i < j

\* the addresses of the slot or intercept entries of the node at an address
\* that a structure error of the node is about
EntriesAbout(addr, error) ==
    {a \in {StepsBelow(addr)[k] : k \in 1..Len(StepsBelow(addr))} :
        /\ a[Len(a)][1] =
              (IF error.type = "INVALID_SLOT_STRUCTURE" THEN "slots" ELSE "intercepts")
        /\ <<NodeAt(tree.root, a).segment>> = error.segments}

\* C25, amended: of the errors reported for a node itself, the sibling
\* conflicts among its children come before every error reported for a node
\* in its subtree; the structure error of a slot or an intercept comes
\* before every error reported within that slot or intercept, and after
\* every error reported within the node's children; the orphan-middleware
\* error comes after every error reported for a node in its subtree.
FindingsOrderAmended ==
    pc = "validated" =>
        \A i, j \in 1..Len(output[1].errors) :
            LET own == output[1].errors[i]
                addr == trace.owners[i]
                below == trace.owners[j]
            IN  Above(addr, below) =>
                  /\ own.type \in SiblingCodes => i < j
                  /\ own.type = "ORPHAN_MIDDLEWARE" => j < i
                  /\ own.type \in {"INVALID_SLOT_STRUCTURE", "INVALID_INTERCEPT_STRUCTURE"} =>
                        /\ (\E a \in EntriesAbout(addr, own) : AtOrAbove(a, below)) => i < j
                        /\ below[Len(addr) + 1][1] = "children" => j < i

\* validate has returned, for one node, a sibling conflict before, a slot
\* structure error between and an orphan-middleware error after the errors
\* of nodes below it
FindingsOrderWitness ==
    /\ pc = "validated"
    /\ \E i, j, k, l \in 1..Len(output[1].errors) :
          /\ i < j /\ j < k /\ k < l
          /\ trace.owners[i] = <<<<"children", 1>>>>
          /\ output[1].errors[i].type = "DUPLICATE_STATIC"
          /\ trace.owners[j] = <<>>
          /\ output[1].errors[j].type = "INVALID_SLOT_STRUCTURE"
          /\ Above(<<>>, trace.owners[k])
          /\ trace.owners[l] = <<>>
          /\ output[1].errors[l].type = "ORPHAN_MIDDLEWARE"

\* the text a node adds to the path: '/@' and the slot name for a slot,
\* '/' and the raw segment for another node with a non-empty raw
PathPiece(addr) ==
    LET step == addr[Len(addr)]
        up == NodeAt(tree.root, SubSeq(addr, 1, Len(addr) - 1))
        node == NodeAt(tree.root, addr)
    IN  IF step[1] = "slots" THEN <<"/", "@">> \o up.slots[step[2]].name
        ELSE IF node.segment.raw # <<>> THEN <<"/">> \o node.segment.raw
        ELSE <<>>

\* the accumulation from the root down to the node at an address
RECURSIVE PathTo(_)
PathTo(addr) ==
    IF addr = <<>>
    THEN (IF tree.root.segment.raw # <<>> THEN <<"/">> \o tree.root.segment.raw ELSE <<>>)
    ELSE PathTo(SubSeq(addr, 1, Len(addr) - 1)) \o PathPiece(addr)

\* the nodes an error of the list is reported for: the slot or intercept
\* entry a structure error is about, and the node whose call pushed it
\* otherwise
ReportedFor(i) ==
    IF output[1].errors[i].type \in {"INVALID_SLOT_STRUCTURE", "INVALID_INTERCEPT_STRUCTURE"}
    THEN EntriesAbout(trace.owners[i], output[1].errors[i])
    ELSE {trace.owners[i]}

\* C26: path of a validator finding.  The path of every error is the
\* accumulation, from the root down to the node the error is reported for,
\* of '/' plus the raw segment of each node with a non-empty raw, each node
\* contributing once and a slot contributing '/@' plus its slot name once;
\* also for errors found inside a slot subtree and inside an intercept
\* subtree, and for the slot and intercept structure errors themselves.
FindingPath ==
    pc = "validated" =>
        \A i \in 1..Len(output[1].errors) :
            \E a \in ReportedFor(i) : output[1].errors[i].path = PathTo(a)

\* the resolve calls and the create calls of the history, as positions in it
ResolveCalls == {i \in 1..Len(trace) : trace[i].op = "resolve"}

CreateCalls == {i \in 1..Len(trace) : trace[i].op = "create"}

\* the nodes from the root down to the node at an address
NodesTo(addr) == [k \in 1..(Len(addr) + 1) |-> NodeAt(tree.root, SubSeq(addr, 1, k - 1))]

\* the layouts of the nodes from the root down to the node at an address
LayoutsTo(addr) ==
    LET owning == SelectSeq(NodesTo(addr), LAMBDA n : "layout" \in DOMAIN n.components)
    IN  [k \in 1..Len(owning) |-> owning[k].components.layout]

\* the middlewares of the nodes from the root down to the node at an address
MiddlewaresTo(addr) ==
    LET owning == SelectSeq(NodesTo(addr), HasMiddleware)
    IN  [k \in 1..Len(owning) |-> owning[k].middleware]

\* what the history of a finished walk holds: one resolve call for each node,
\* create calls bottom-up, and the chain and stacks in each context
WalkCalls ==
    pc = "adapted" =>
          /\ \A a \in Addresses(tree.root, <<>>) :
                Cardinality({i \in ResolveCalls : trace[i].addr = a}) = 1
          /\ \A i \in ResolveCalls : trace[i].addr \in Addresses(tree.root, <<>>)
          /\ \A i, j \in CreateCalls : Above(trace[i].addr, trace[j].addr) => j < i
          /\ \A i \in ResolveCalls :
                /\ trace[i].ctx.node = NodeAt(tree.root, trace[i].addr)
                /\ trace[i].ctx.segments = ChainTo(tree.root, trace[i].addr)
                /\ trace[i].ctx.layouts = LayoutsTo(trace[i].addr)
                /\ trace[i].ctx.middlewares = MiddlewaresTo(trace[i].addr)

\* C27: the adapter walk is one post-order traversal.  For every tree the
\* walk returns, resolve is called exactly once for each node reached
\* through children, slots and intercepts (also for nodes that create no
\* route), every create call for a node comes after all create calls for the
\* nodes of its subtree, and the context passed to resolve carries the
\* segment chain from the root to the node and the layouts and middlewares
\* of the node and its ancestors from the root down.
WalkPostOrder ==
    /\ pc = "ready" =>
          Len(adaptTrace(tree)) >= Cardinality(Addresses(tree.root, <<>>))
    /\ WalkCalls

\* adapt has resolved a group that creates no route, three levels down,
\* under two layouts and a middleware, and has created routes at three depths
WalkPostOrderWitness ==
    /\ pc = "adapted"
    /\ \E i \in ResolveCalls :
          /\ ~Creating(trace[i].addr)
          /\ Len(trace[i].addr) = 3
          /\ Len(trace[i].ctx.layouts) >= 2
          /\ Len(trace[i].ctx.middlewares) = 1
    /\ \E i, j, k \in CreateCalls :
          /\ Above(trace[i].addr, trace[j].addr)
          /\ Above(trace[j].addr, trace[k].addr)


\* C28: match is independent of cache history.  After every match call, on
\* whichever matcher instance and after whatever calls came before it, the
\* outcome (null, or a hit with its params) is the one the same call gives
\* against an empty cache, and every compilation the cache holds equals the
\* fresh compilation of its pattern.
MatchHistoryFree ==
    /\ pc \in {"compiled", "cached"} =>
          result[1] = match(path[1], route[1], NoCache).value
    /\ \A q \in DOMAIN cache : cache[q] = CompileBody(q)

\* a call answered from a cache of two patterns has returned a hit with a
\* param, and the pattern it used was not the first one compiled
MatchHistoryFreeWitness ==
    /\ pc = "cached"
    /\ Cardinality(DOMAIN cache) >= 2
    /\ result[1].hit
    /\ DOMAIN result[1].params # {}
    /\ route[1].pattern # (CHOOSE q \in DOMAIN cache : TRUE)

\* every route of a list of routes, with the routes nested in their children
RECURSIVE RoutesWithin(_)
RoutesWithin(routes) ==
    UNION {{routes[i]} \cup
           (IF "children" \in DOMAIN routes[i] /\ routes[i].children # Undefined
            THEN RoutesWithin(routes[i].children[1])
            ELSE {}) : i \in 1..Len(routes)}

\* the create calls made for the node at an address with the node's page
PageCreates(addr) ==
    {i \in CreateCalls :
        /\ trace[i].addr = addr
        /\ FileOf(trace[i].data.page) = <<NodeAt(tree.root, addr).components.page>>}

\* C29: no page is lost by the adapter walk.  For every node of the tree that
\* owns a page component, whatever its segment type, the output of adapt
\* holds exactly one route created with that node's resolved page.
NoPageLost ==
    pc = "adapted" =>
        \A a \in Addresses(tree.root, <<>>) :
            "page" \in DOMAIN NodeAt(tree.root, a).components =>
                /\ Cardinality(PageCreates(a)) = 1
                /\ \A i \in PageCreates(a) : trace[i].route \in RoutesWithin(output[1])

-----------------------------------------------------------------------------
(* Orbit (and Microlet, the same code under another name): the lifecycle   *)
(* methods of a registered app.  The methods are async functions on one    *)
(* JavaScript thread: a call runs until its first await, and what follows  *)
(* an await runs later, as a microtask once the awaited promise has        *)
(* resolved.  The load is a setTimeout(resolve, 0), a task of its own,     *)
(* which starts only when no microtask is left.  Nothing in the methods    *)
(* throws for a registered app (the lifecycle hooks are commented out), so *)
(* the catch blocks and the *_ERROR statuses are never entered.            *)

MaxCalls == 3

AppNames == {"app1"}

\* the registry and the event log, as the methods read and change them
Orbit(registry, emitted) == [apps |-> registry, events |-> emitted]

\* setAppStatus(app, status); by is the method that makes the call, kept
\* with the 'app:status-change' event for the history
setAppStatus(o, name, status, by) ==
    IF o.apps[name] = status THEN o
    ELSE Orbit([o.apps EXCEPT ![name] = status],
               Append(o.events, [app |-> name, from |-> o.apps[name], to |-> status,
                                 by |-> by]))

\* a call of an async method: the registry and log when it suspends or
\* returns, the timers it has set and the continuations it has made ready
Ran(o, set, ready) == [orbit |-> o, timers |-> set, microtasks |-> ready]

\* a suspended call of a method for an app, with the calls awaiting it:
\* stack[1] is the call suspended, stack[k + 1] the call awaiting stack[k]
Suspended(name, stack) == [app |-> name, stack |-> stack]

\* the method returns: the call awaiting it, if any, becomes ready
Return(o, name, awaiting) ==
    Ran(o, <<>>, IF awaiting = <<>> THEN <<>> ELSE <<Suspended(name, awaiting)>>)

\* loadApp up to its await
loadApp(o, name, awaiting) ==
    IF o.apps[name] # "NOT_LOADED" /\ o.apps[name] # "LOAD_ERROR"
    THEN Return(o, name, awaiting)
    ELSE Ran(setAppStatus(o, name, "LOADING", "loadApp"),
             <<Suspended(name, <<"loadApp">> \o awaiting)>>, <<>>)

\* loadApp after its await
loaded(o, name) == setAppStatus(o, name, "NOT_BOOTSTRAPPED", "loadApp")

\* bootstrapApp from setAppStatus(app, 'BOOTSTRAPPING') on
bootstrapped(o, name) ==
    setAppStatus(setAppStatus(o, name, "BOOTSTRAPPING", "bootstrapApp"),
                 name, "NOT_MOUNTED", "bootstrapApp")

\* bootstrapApp up to its await, or to its end when it does not await
bootstrapApp(o, name, awaiting) ==
    IF o.apps[name] # "NOT_BOOTSTRAPPED"
    THEN IF o.apps[name] = "NOT_LOADED"
         THEN loadApp(o, name, <<"bootstrapApp">> \o awaiting)
         ELSE Return(o, name, awaiting)
    ELSE Return(bootstrapped(o, name), name, awaiting)

\* mountApp from setAppStatus(app, 'MOUNTING') on
mounted(o, name) ==
    setAppStatus(setAppStatus(o, name, "MOUNTING", "mountApp"), name, "MOUNTED", "mountApp")

\* mountApp up to its await, or to its end when it does not await
mountApp(o, name) ==
    IF o.apps[name] # "NOT_MOUNTED"
    THEN bootstrapApp(o, name, <<"mountApp">>)
    ELSE Return(mounted(o, name), name, <<>>)

\* unmountApp, which never awaits
unmountApp(o, name) ==
    IF o.apps[name] # "MOUNTED"
    THEN Return(o, name, <<>>)
    ELSE Return(setAppStatus(setAppStatus(o, name, "UNMOUNTING", "unmountApp"),
                             name, "NOT_MOUNTED", "unmountApp"),
                name, <<>>)

\* a suspended call goes on after its await and returns
resume(o, call) ==
    LET method == Head(call.stack)
        after == CASE method = "loadApp" -> loaded(o, call.app)
                   [] method = "bootstrapApp" -> bootstrapped(o, call.app)
                   [] method = "mountApp" -> mounted(o, call.app)
    IN  Return(after, call.app, Tail(call.stack))

\* a caller calls a method without waiting for the calls made before
Invoke(method, ran) ==
    /\ pc = "registered"
    /\ Len(invoked) < MaxCalls
    /\ apps' = ran.orbit.apps
    /\ events' = ran.orbit.events
    /\ timers' = timers \o ran.timers
    /\ microtasks' = microtasks \o ran.microtasks
    /\ invoked' = Append(invoked, method)
    /\ UNCHANGED <<pc, parserVars, routeVars, cacheVars, sorterVars>>

LoadApp(name) == Invoke("loadApp", loadApp(Orbit(apps, events), name, <<>>))

BootstrapApp(name) == Invoke("bootstrapApp", bootstrapApp(Orbit(apps, events), name, <<>>))

MountApp(name) == Invoke("mountApp", mountApp(Orbit(apps, events), name))

UnmountApp(name) == Invoke("unmountApp", unmountApp(Orbit(apps, events), name))

\* the oldest timer fires, when no microtask is left: the load promise
\* resolves and loadApp runs from its await to its end
LoadCompletes ==
    /\ pc = "registered"
    /\ timers # <<>>
    /\ microtasks = <<>>
    /\ LET ran == resume(Orbit(apps, events), Head(timers))
       IN  /\ apps' = ran.orbit.apps
           /\ events' = ran.orbit.events
           /\ microtasks' = ran.microtasks
    /\ timers' = Tail(timers)
    /\ UNCHANGED <<pc, invoked, parserVars, routeVars, cacheVars, sorterVars>>

\* the oldest ready continuation runs: bootstrapApp or mountApp goes on
\* after the call it awaited has returned
RunMicrotask ==
    /\ pc = "registered"
    /\ microtasks # <<>>
    /\ LET ran == resume(Orbit(apps, events), Head(microtasks))
       IN  /\ apps' = ran.orbit.apps
           /\ events' = ran.orbit.events
           /\ microtasks' = Tail(microtasks) \o ran.microtasks
    /\ UNCHANGED <<pc, timers, invoked, parserVars, routeVars, cacheVars, sorterVars>>

\* new Orbit({ apps }): every app is registered with status NOT_LOADED
InitOrbit ==
    /\ pc = "registered"
    /\ apps = [name \in AppNames |-> "NOT_LOADED"]
    /\ events = <<>>
    /\ timers = <<>>
    /\ microtasks = <<>>
    /\ invoked = <<>>
    /\ IdleParser /\ IdleRoute /\ IdleCache /\ IdleSorter

NextOrbit ==
    \/ \E name \in AppNames :
          LoadApp(name) \/ BootstrapApp(name) \/ MountApp(name) \/ UnmountApp(name)
    \/ LoadCompletes
    \/ RunMicrotask

SpecOrbit == InitOrbit /\ [][NextOrbit]_vars

\* the status changes of one app, in the order they were made
ChangesOf(name) == SelectSeq(events, LAMBDA e : e.app = name)

\* before the i-th change of the app its status has become NOT_BOOTSTRAPPED,
\* then BOOTSTRAPPING, then NOT_MOUNTED, then MOUNTING
LoadedBefore(name, i) ==
    LET changes == ChangesOf(name)
    IN  \E a, b, c, d \in 1..(i - 1) :
           /\ a < b /\ b < c /\ c < d
           /\ changes[a].to = "NOT_BOOTSTRAPPED"
           /\ changes[b].to = "BOOTSTRAPPING"
           /\ changes[c].to = "NOT_MOUNTED"
           /\ changes[d].to = "MOUNTING"

\* C30: app lifecycle under interleaved calls.  For a registered app and any
\* interleaving of loadApp, bootstrapApp, mountApp and unmountApp calls made
\* without awaiting one after the other, the status becomes MOUNTED only
\* after the load has completed and the status has gone through
\* NOT_BOOTSTRAPPED, BOOTSTRAPPING, NOT_MOUNTED and MOUNTING; the status of a
\* MOUNTED app is changed by unmountApp only; a pending load never sets a
\* MOUNTED app back to NOT_BOOTSTRAPPED.
LifecycleOrder ==
    pc = "registered" =>
        \A name \in AppNames :
            \A i \in 1..Len(ChangesOf(name)) :
                LET change == ChangesOf(name)[i]
                IN  /\ change.to = "MOUNTED" => LoadedBefore(name, i)
                    /\ change.from = "MOUNTED" => change.by = "unmountApp"
                    /\ ~(change.from = "MOUNTED" /\ change.to = "NOT_BOOTSTRAPPED")

=============================================================================
